---- MODULE Spec2Model ----
(***************************************************************************)
(* Verification model of the kernel memory-management core of "score".     *)
(*                                                                         *)
(* Part 1: the compact heap allocator (kernel/src/klib/cmpctmalloc.rs) on  *)
(* a word-addressed model of kernel memory.  Memory is a sparse map from   *)
(* 8-byte-aligned addresses to 64-bit words; a word is the pair            *)
(* <<low 32 bits, high 32 bits>>, so that header_t {left, size, flag} and  *)
(* ListNode {next, prev} overlay memory exactly as the structs do.         *)
(***************************************************************************)
EXTENDS Integers, Naturals, Sequences, FiniteSets, TLC

(***************************************************************************)
(* Bounds of the model.                                                    *)
(***************************************************************************)
\* at most this many allocations are live at once
MaxLive == 3
\* at most this many heap calls are made in one run
MaxOps == 4

(***************************************************************************)
(* Program constants.                                                      *)
(***************************************************************************)
PAGE_SHIFT == 12
PAGE_SIZE == 4096
HEAP_GROW_SIZE == 256 * 1024
HEAP_ALLOC_VIRTUAL_BITS == 21
SIZE_OF_HEADER_T == 16
SIZE_OF_FREE_T == 32
HEAP_GROW_OVER_HEAD == SIZE_OF_HEADER_T * 2
HEAP_LARGE_ALLOC_BYTES == 2097152 - HEAP_GROW_OVER_HEAD
NUMBER_OF_BUCKETS == 1 + 15 + (HEAP_ALLOC_VIRTUAL_BITS - 7) * 8
BUCKET_WORDS == (NUMBER_OF_BUCKETS + 31) \div 32
FREE_BIT == 1
HEAP_MAX_ALLOC_SIZE == 1048576 - SIZE_OF_HEADER_T
HEAP_USABLE_GROW_SIZE == HEAP_GROW_SIZE - HEAP_GROW_OVER_HEAD
\* guard pages the heap asks the virtual allocator to keep around every run
ALLOC_GUARD == 1
\* size of one List<free_t>: node.next, node.prev, ref_node
SIZE_OF_LIST == 24

(***************************************************************************)
(* Address-space layout of the model.  The kernel's real addresses come    *)
(* from the generated configuration; the model places the heap range and   *)
(* the Heap structure at fixed low addresses and keeps the one property of *)
(* the high half of a pointer that the code can observe (its lowest bit)   *)
(* as the variable ptr_hi.                                                 *)
(***************************************************************************)
\* base of the virtual range handed to the VirtualAlloc of the heap
HEAP_BASE == 268435456
\* pages at the start of the range that hold the VirtualAlloc bitmap
BITMAP_PAGES == 1
\* address of Heap.free_lists[0]
LIST_BASE == 134217752

NULL == 0
\* a pointer value that is not an address (a non-pointer word read as one)
WILD == -1
\* the byte pattern a client writes into its allocation, and four of them
PAT_BYTE == 85
PAT == 1431655765

Min(a, b) == IF a < b THEN a ELSE b
Max(a, b) == IF a > b THEN a ELSE b

RECURSIVE Pow2(_)
Pow2(n) == IF n = 0 THEN 1 ELSE 2 * Pow2(n - 1)

\* number of significant bits of n: 64 - leading_zeros(n) for usize n
RECURSIVE BitLen(_)
BitLen(n) == IF n = 0 THEN 0 ELSE 1 + BitLen(n \div 2)

ROUNDUP(a, b) == ((a + (b - 1)) \div b) * b

IS_PAGE_ALIGNED(x) == x % PAGE_SIZE = 0

(***************************************************************************)
(* Bucketing.  The helper returns the bucket index and the rounded size.   *)
(* `(size >> 3) - 1` is a usize subtraction: for size < 8 it underflows    *)
(* (a panic in a checked build, 2^64-1 otherwise); the model keeps the     *)
(* mathematical value -1 there, which is outside every valid index range.  *)
(***************************************************************************)
size_to_index_helper(size, adjust, increment) ==
    IF size <= 128
    THEN [bucket |-> (size \div 8) - 1, size |-> size]
    ELSE LET sz == size + adjust
             row == BitLen(sz) - 4
             column == (sz \div Pow2(row)) % 8
             row_column == (row * 8 + column) + increment
             rounded == (8 + (row_column % 8)) * Pow2(row_column \div 8)
         IN [bucket |-> row_column + 15 - 32, size |-> rounded]

\* rounds the size up but stays in the bucket of the size below
size_to_index_allocating_noincrement(size) ==
    size_to_index_helper(ROUNDUP(size, 8), -8, 0)

size_to_index_allocating(size) ==
    size_to_index_helper(ROUNDUP(size, 8), -8, 1)

size_to_index_freeing(size) == size_to_index_helper(size, 0, 0).bucket

BucketOk(b) == b >= 0 /\ b < NUMBER_OF_BUCKETS

(***************************************************************************)
(* State.                                                                  *)
(***************************************************************************)
VARIABLES
    mem,                \* kernel memory: 8-aligned address -> <<lo32, hi32>>
    size,               \* Heap.size
    remaining,          \* Heap.remaining
    cached_os_alloc,    \* Heap.cached_os_alloc
    free_list_bits,     \* Heap.free_list_bits: word -> set of bit positions
    os_areas,           \* runs of pages the heap holds from the VirtualAlloc
    next_search_start,  \* VirtualAlloc.next_search_start of the heap range
    panicked,           \* "none", or why the kernel stopped
    ptr_hi,             \* lowest bit of the high half of kernel pointers
    fresh,              \* 32-bit content of never-written heap memory
    live,               \* the client's live allocations
    ops,                \* heap operations performed so far
    last,               \* the last operation and its result
    scen,               \* progress of scenario C (two allocate(16), two free)
    rep,                \* progress of allocate, free, allocate on an idle heap
    q,                  \* bucketing query: size and the two indices
    growth,             \* one run of the growth loop of cmpct_alloc
    thr,                \* two CPUs inside cmpct_alloc, or inside the PMM
    valloc,             \* a VirtualAlloc with its bitmap, page table and PMM
    vcl,                \* the client of that VirtualAlloc
    pmm_node,           \* PMM_NODE with the boot reservations and the pages
    mutex               \* one Mutex<T>: owner, data and the threads using it

vars == <<mem, size, remaining, cached_os_alloc, free_list_bits, os_areas,
          next_search_start, panicked, ptr_hi, fresh, live, ops, last,
          scen, rep, q, growth, thr, valloc, vcl, pmm_node, mutex>>

\* the heap, the page layer under it and the client's view of them
heapstate == <<mem, size, remaining, cached_os_alloc, free_list_bits,
               os_areas, next_search_start, panicked, ptr_hi, fresh,
               live, ops, last, scen, rep>>

\* what the heap's operations leave alone
probes == <<q, growth, thr, valloc, vcl, pmm_node, mutex>>

\* the heap and everything below it as one value, threaded through the code
\* nullmap tells what a dereference of a null pointer does during the call:
\* it is undefined behaviour, the page at 0 may be unmapped (the kernel
\* traps) or readable (the code goes on with whatever it read)
H == [mem |-> mem, size |-> size, remaining |-> remaining,
      cached |-> cached_os_alloc, bits |-> free_list_bits,
      os |-> os_areas, nss |-> next_search_start, panic |-> panicked,
      nullmap |-> FALSE]
HN(nm) == [H EXCEPT !.nullmap = nm]

Dead(h) == h.panic # "none"
Fault(h, why) == IF Dead(h) THEN h ELSE [h EXCEPT !.panic = why]

(***************************************************************************)
(* Memory.                                                                 *)
(***************************************************************************)
None == <<0, 0>>
PtrW(p) == IF p = NULL THEN None ELSE IF p = WILD THEN <<1, 2>> ELSE <<p, ptr_hi>>
AsPtr(w) == IF w = None THEN NULL ELSE IF w[2] = ptr_hi THEN w[1] ELSE WILD

ListAddr(b) == LIST_BASE + b * SIZE_OF_LIST
IsListWord(a) ==
    a >= LIST_BASE /\ a < LIST_BASE + NUMBER_OF_BUCKETS * SIZE_OF_LIST
InArea(h, a) == \E r \in h.os : a >= r.base /\ a < r.base + r.len
InNullPage(a) == a >= 0 /\ a < PAGE_SIZE
Mapped(h, a) ==
    /\ a >= 0
    /\ a % 8 = 0
    /\ (IsListWord(a) \/ InArea(h, a) \/ (h.nullmap /\ InNullPage(a)))
\* why an access to the unmapped address a stops the kernel
Trap(a) == IF InNullPage(a) THEN "null" ELSE "trap"

\* content of a word nobody wrote since cmpct_init: an initialised empty
\* list (next = prev = ref_node = the node itself), or raw page content
Default(a) ==
    IF IsListWord(a)
    THEN PtrW(a - ((a - LIST_BASE) % SIZE_OF_LIST))
    ELSE <<fresh, fresh>>

Ld(h, a) == IF a \in DOMAIN h.mem THEN h.mem[a] ELSE Default(a)

St(h, a, w) ==
    IF Dead(h) THEN h
    ELSE IF ~Mapped(h, a) THEN Fault(h, Trap(a))
    ELSE [h EXCEPT !.mem = (a :> w) @@ @]

\* memory without the entries that equal the default content
Norm(m) == [a \in {x \in DOMAIN m : m[x] # Default(x)} |-> m[a]]

\* a read through pointer a: the kernel traps when a is not mapped
Need(h, a) == IF Dead(h) \/ Mapped(h, a) THEN h ELSE Fault(h, Trap(a))

hdr_left(h, p) == AsPtr(Ld(h, p))
hdr_size(h, p) == Ld(h, p + 8)[1]
hdr_flag(h, p) == Ld(h, p + 8)[2]
set_left(h, p, v) == St(h, p, PtrW(v))
set_size(h, p, v) == St(h, p + 8, <<v, hdr_flag(h, p)>>)
set_flag(h, p, v) == St(h, p + 8, <<hdr_size(h, p), v>>)

(***************************************************************************)
(* Intrusive list (klib/list.rs) on memory.  A free_t is a header_t        *)
(* followed by its queue_node, so the node of the block at x is x + 16.    *)
(***************************************************************************)
into_node(x) == x + SIZE_OF_HEADER_T
from_node(n) == n - SIZE_OF_HEADER_T

list_empty(h, b) == Ld(h, ListAddr(b)) = Ld(h, ListAddr(b) + 16)

list_head(h, b) ==
    LET w == Ld(h, ListAddr(b))
    IN IF w = None THEN NULL ELSE from_node(AsPtr(w))

\* *dst = *src
copy_word(h, dst, src) == St(h, dst, Ld(h, src))

\* if let Some(p) = *at { (*p).<field at offset off> = w }
store_via(h, at, off, w) ==
    IF Ld(h, at) = None THEN h ELSE St(h, AsPtr(Ld(h, at)) + off, w)

add_head_node(h, b, node) ==
    LET L == ListAddr(b)
        h1 == copy_word(h, node, L)
        h2 == copy_word(h1, node + 8, L + 16)
        h3 == store_via(h2, L, 8, PtrW(node))
    IN St(h3, L, PtrW(node))

add_head(h, b, elt) ==
    IF Ld(h, ListAddr(b) + 16) = None
    THEN Fault(h, "assert")
    ELSE add_head_node(h, b, into_node(elt))

\* if let Some(prev) = self.prev.take() { (*prev).next = self.next.take() }
take_links(h, n) ==
    IF Ld(h, n + 8) = None THEN St(h, n + 8, None)
    ELSE St(St(St(h, n + 8, None), n, None), AsPtr(Ld(h, n + 8)), Ld(h, n))

delete_from_list(h, n) ==
    IF Ld(h, n + 8) = None \/ Ld(h, n) = None
    THEN h
    ELSE take_links(St(h, AsPtr(Ld(h, n)) + 8, Ld(h, n + 8)), n)

(***************************************************************************)
(* The page layer under the heap.  heap_page_alloc is VirtualAlloc::       *)
(* alloc_pages: bitmap_alloc_range finds num_pages + 2 * guard unset bits  *)
(* from next_search_start, sets the inner bits and moves next_search_start *)
(* past them, then alloc_map_pages takes the pages from the PMM; `avail`   *)
(* is the number of pages the PMM can still provide.  free_pages never     *)
(* returns: unmap_free_pages ends in todo!().                              *)
(***************************************************************************)
\* 1 << (ARCH_HEAP_ALIGN_BITS - PAGE_SHIFT)
ALIGN_PAGES == 256
\* pages of the virtual range reserved for the heap
HEAP_REGION_PAGES == 4096

heap_page_alloc(h, pages, avail) ==
    IF Dead(h) THEN [h |-> h, va |-> 0, ok |-> FALSE]
    ELSE IF pages = 0 THEN [h |-> Fault(h, "assert"), va |-> 0, ok |-> FALSE]
    ELSE IF pages >= ALIGN_PAGES
    THEN [h |-> Fault(h, "todo"), va |-> 0, ok |-> FALSE]
    ELSE IF h.nss + pages + 2 * ALLOC_GUARD > HEAP_REGION_PAGES
    THEN [h |-> h, va |-> 0, ok |-> FALSE]
    ELSE LET alloc_start == h.nss + ALLOC_GUARD
             vstart == HEAP_BASE + alloc_start * PAGE_SIZE
             h1 == [h EXCEPT !.nss = alloc_start + pages]
         IN IF pages > avail
            THEN [h |-> h1, va |-> 0, ok |-> FALSE]
            ELSE [h |-> [h1 EXCEPT !.os = @ \cup
                                  {[base |-> vstart, len |-> pages * PAGE_SIZE]}],
                  va |-> vstart, ok |-> TRUE]

heap_page_free(h, va, pages) ==
    IF ~IS_PAGE_ALIGNED(va) \/ pages = 0
    THEN Fault(h, "assert")
    ELSE Fault(h, "todo")

free_to_os(h, va, sz) ==
    IF ~IS_PAGE_ALIGNED(va) \/ ~IS_PAGE_ALIGNED(sz)
    THEN Fault(h, "assert")
    ELSE LET h1 == heap_page_free(h, va, sz \div PAGE_SIZE)
         IN IF Dead(h1) THEN h1 ELSE [h1 EXCEPT !.size = @ - sz]

(***************************************************************************)
(* Heap internals.                                                         *)
(***************************************************************************)
set_free_list_bit(h, index) ==
    IF Dead(h) THEN h
    ELSE IF ~BucketOk(index) THEN Fault(h, "index")
    ELSE [h EXCEPT !.bits[index \div 32] = @ \cup {31 - (index % 32)}]

clear_free_list_bit(h, index) ==
    IF Dead(h) THEN h
    ELSE IF ~BucketOk(index) THEN Fault(h, "index")
    ELSE [h EXCEPT !.bits[index \div 32] = @ \ {31 - (index % 32)}]

create_allocation_header(h, va, offset, sz, left) ==
    LET ptr == va + offset
        h1 == set_left(h, ptr, left)
    IN St(h1, ptr + 8, <<sz, 0>>)

\* (*ptr).queue_node.init() and the three fields of (*ptr).header
write_free_header(h, area, left, sz) ==
    LET h1 == St(St(h, into_node(area), None), into_node(area) + 8, None)
        h2 == set_left(h1, area, left)
    IN St(h2, area + 8, <<sz, FREE_BIT>>)

\* heap.remaining += size
add_remaining(h, sz) ==
    IF Dead(h) THEN h ELSE [h EXCEPT !.remaining = @ + sz]

\* sets the bit of the bucket and counts the area, but links it nowhere
count_free_area(h, sz, bucket) ==
    IF Dead(h) THEN h
    ELSE IF sz < SIZE_OF_HEADER_T \/ ~BucketOk(bucket)
    THEN Fault(h, "index")
    ELSE add_remaining(set_free_list_bit(h, bucket), sz)

\* marks the area free and counts it, but does not link it into its bucket
create_free_area_nolist(h, area, left, sz) ==
    count_free_area(write_free_header(h, area, left, sz), sz,
                    size_to_index_freeing(sz - SIZE_OF_HEADER_T))

\* set_free_list_bit(bucket), free_lists[bucket].add_head(ptr) and
\* remaining += size; the index of free_lists is bounds-checked
link_free_area(h, area, sz, bucket) ==
    IF Dead(h) THEN h
    ELSE IF sz < SIZE_OF_HEADER_T \/ ~BucketOk(bucket)
    THEN Fault(h, "index")
    ELSE add_remaining(add_head(set_free_list_bit(h, bucket), bucket, area),
                       sz)

create_free_area(h, area, left, sz) ==
    link_free_area(write_free_header(h, area, left, sz), area, sz,
                   size_to_index_freeing(sz - SIZE_OF_HEADER_T))

\* writes the two sentinel headers of the area and counts its free space, but
\* leaves the free space out of the bucket lists
add_to_heap_unlisted(h, area, sz) ==
    LET h1 == create_allocation_header(h, area, 0, SIZE_OF_HEADER_T, NULL)
        free_area == area + SIZE_OF_HEADER_T
        h2 == create_free_area_nolist(h1, free_area, area,
                                      sz - 2 * SIZE_OF_HEADER_T)
    IN create_allocation_header(h2, area + sz - SIZE_OF_HEADER_T, 0, 0,
                                free_area)

add_to_heap(h, area, sz) ==
    LET left == area
        h1 == create_allocation_header(h, area, 0, SIZE_OF_HEADER_T, NULL)
        free_area == area + SIZE_OF_HEADER_T
        free_size == sz - 2 * SIZE_OF_HEADER_T
        h2 == create_free_area(h1, free_area, left, free_size)
        right == area + sz - SIZE_OF_HEADER_T
    IN create_allocation_header(h2, right, 0, 0, free_area)

\* os_alloc != null_mut() && (*os_alloc).size() >= size
cached_fits(h, sz) == h.cached # NULL /\ hdr_size(h, h.cached) >= sz

\* the `if os_alloc != null_mut()` block: a cached OS allocation that is
\* large enough is taken, a smaller one goes back to the page layer
take_cached(h, sz) ==
    IF h.cached = NULL THEN h
    ELSE IF cached_fits(h, sz)
    THEN IF IS_PAGE_ALIGNED(h.cached)
            /\ IS_PAGE_ALIGNED(hdr_size(h, h.cached))
         THEN [h EXCEPT !.cached = NULL]
         ELSE Fault(h, "assert")
    ELSE LET hf == free_to_os(h, h.cached, hdr_size(h, h.cached))
         IN IF Dead(hf) THEN hf ELSE [hf EXCEPT !.cached = NULL]

\* heap.size += size; add_to_heap(area, size), r from heap_page_alloc
add_new_area(r, sz) ==
    IF ~r.ok THEN [h |-> r.h, ok |-> FALSE]
    ELSE [h |-> add_to_heap([r.h EXCEPT !.size = @ + sz], r.va, sz),
          ok |-> TRUE]

\* h is the heap at entry, g the heap past the `if os_alloc` block
grow_area(h, g, sz, avail) ==
    IF Dead(g) THEN [h |-> g, ok |-> FALSE]
    ELSE IF cached_fits(h, sz)
    THEN [h |-> add_to_heap(g, h.cached, hdr_size(h, h.cached)),
          ok |-> TRUE]
    ELSE add_new_area(heap_page_alloc(g, sz \div PAGE_SIZE, avail), sz)

heap_grow(h, grow, avail) ==
    IF Dead(h) THEN [h |-> h, ok |-> FALSE]
    ELSE IF grow > HEAP_LARGE_ALLOC_BYTES
    THEN [h |-> Fault(h, "assert"), ok |-> FALSE]
    ELSE LET sz0 == ROUNDUP(grow + HEAP_GROW_OVER_HEAD, PAGE_SIZE)
         IN grow_area(h, take_cached(h, sz0), sz0, avail)

\* if heap.free_lists[bucket].empty() { clear_free_list_bit(bucket) }
clear_if_empty(h, bucket) ==
    IF Dead(h) THEN h
    ELSE IF ~BucketOk(bucket) THEN Fault(h, "index")
    ELSE IF list_empty(h, bucket) THEN clear_free_list_bit(h, bucket)
    ELSE h

\* takes the block off its list without taking its size off `remaining`
unlink_free_uncounted(h, free_area, bucket) ==
    IF Dead(h) THEN h
    ELSE LET h2 == delete_from_list(h, into_node(free_area))
             h3 == set_flag(h2, free_area, 0)
         IN clear_if_empty(h3, bucket)

unlink_free(h, free_area, bucket) ==
    IF Dead(h) THEN h
    ELSE IF h.remaining < hdr_size(h, free_area) THEN Fault(h, "assert")
    ELSE LET h1 == [h EXCEPT !.remaining = @ - hdr_size(h, free_area)]
             h2 == delete_from_list(h1, into_node(free_area))
             h3 == set_flag(h2, free_area, 0)
         IN clear_if_empty(h3, bucket)

right_header(h, header) == header + hdr_size(h, header)

\* leading_zeros of a 32-bit mask given as its set of bit positions
LeadingZeros(mask) ==
    31 - (CHOOSE b \in mask : \A c \in mask : c <= b)

\* a search that looks at the word of the index only
find_nonempty_bucket_word(h, index) ==
    LET mask == {b \in 0..(31 - (index % 32)) : b \in h.bits[index \div 32]}
    IN IF mask # {}
       THEN (index - (index % 32)) + LeadingZeros(mask)
       ELSE -1

find_nonempty_bucket(h, index) ==
    LET mask == {b \in 0..(31 - (index % 32)) : b \in h.bits[index \div 32]}
        start == ROUNDUP(index + 1, 32) \div 32
        end == NUMBER_OF_BUCKETS \div 32
        later == {i \in start..(end - 1) : h.bits[i] # {}}
    IN IF mask # {}
       THEN (index - (index % 32)) + LeadingZeros(mask)
       ELSE IF later # {}
       THEN LET i == CHOOSE i \in later : \A j \in later : i <= j
            IN i * 32 + LeadingZeros(h.bits[i])
       ELSE -1

unlink_free_unknown_bucket(h, free_area) ==
    IF Dead(h) THEN h
    ELSE IF hdr_size(h, free_area) < SIZE_OF_HEADER_T THEN Fault(h, "index")
    ELSE unlink_free(h, free_area,
             size_to_index_freeing(hdr_size(h, free_area) - SIZE_OF_HEADER_T))

is_tagged_as_free(h, header) ==
    IF header = NULL THEN FALSE
    ELSE hdr_flag(h, header) % 2 = FREE_BIT

is_start_of_os_allocation(h, header) == Ld(h, header) = None

is_end_of_os_allocation(h, header) == hdr_size(h, header) = 0

possibly_free_to_os(h, left_sentinel, total_size) ==
    IF Dead(h) THEN h
    ELSE IF h.cached = NULL
    THEN LET h1 == [h EXCEPT !.cached = left_sentinel]
             h2 == set_left(h1, left_sentinel, NULL)
         IN St(h2, left_sentinel + 8, <<total_size, 0>>)
    ELSE free_to_os(h, left_sentinel, total_size)

\* never hands a whole OS allocation back: the area always becomes a block
free_memory_keep(h, va, left, sz) ==
    IF Dead(h) THEN h ELSE create_free_area(h, va, left, sz)

\* the last test of the condition, and the two branches
free_memory_at_end(h, va, left, sz) ==
    IF Dead(h) THEN h
    ELSE IF ~is_end_of_os_allocation(h, va + sz)
    THEN create_free_area(h, va, left, sz)
    ELSE IF hdr_size(h, left) # SIZE_OF_HEADER_T
    THEN Fault(h, "assert")
    ELSE possibly_free_to_os(h, left, sz + 2 * SIZE_OF_HEADER_T)

\* is_start_of_os_allocation(left) && ..., after `left` was read
free_memory_at_start(h, va, left, sz) ==
    IF Dead(h) THEN h
    ELSE IF ~is_start_of_os_allocation(h, left)
    THEN create_free_area(h, va, left, sz)
    ELSE free_memory_at_end(Need(h, va + sz), va, left, sz)

free_memory(h, va, left, sz) ==
    IF Dead(h) THEN h
    ELSE IF ~IS_PAGE_ALIGNED(left) THEN create_free_area(h, va, left, sz)
    ELSE free_memory_at_start(Need(h, left), va, left, sz)

(***************************************************************************)
(* klib/memory.rs                                                          *)
(***************************************************************************)
\* the word a with byte k (0..7) replaced by v
SetByte(w, k, v) ==
    LET j == k % 4
        c == IF k < 4 THEN w[1] ELSE w[2]
        old == (c \div Pow2(8 * j)) % 256
        new == c - old * Pow2(8 * j) + v * Pow2(8 * j)
    IN IF k < 4 THEN <<new, w[2]>> ELSE <<w[1], new>>

GetByte(w, k) ==
    LET c == IF k < 4 THEN w[1] ELSE w[2]
    IN (c \div Pow2(8 * (k % 4))) % 256

RECURSIVE SetBytes(_, _, _, _)
\* store byte v at each of the n addresses va, va + 1, ...
SetBytes(h, va, v, n) ==
    IF n = 0 \/ Dead(h) THEN h
    ELSE LET a == va - (va % 8)
         IN SetBytes(St(h, a, SetByte(Ld(h, a), va % 8, v)), va + 1, v, n - 1)

\* `ptr` is never advanced: every iteration stores to the first byte
memset(h, va, value, sz) ==
    IF sz = 0 THEN h
    ELSE LET a == va - (va % 8)
         IN St(h, a, SetByte(Ld(h, a), va % 8, value))

(***************************************************************************)
(* cmpct_alloc, cmpct_memalign, cmpct_free                                 *)
(***************************************************************************)
\* Grow heap by at least 12% if we can: the first growby
first_growby(heap_size, rounded_up) ==
    Min(HEAP_LARGE_ALLOC_BYTES,
        Max(heap_size \div 8, Max(HEAP_USABLE_GROW_SIZE, rounded_up)))

\* keeps the full request after a failure
next_growby_same(growby, rounded_up) == growby

\* growby = cmp::max(growby >> 1, rounded_up)
next_growby(growby, rounded_up) == Max(growby \div 2, rounded_up)

RECURSIVE grow_loop(_, _, _, _)
\* the body of the loop, r the result of heap_grow(growby)
grow_retry(r, growby, rounded_up, avail) ==
    IF Dead(r.h) \/ r.ok THEN r
    ELSE IF growby <= rounded_up THEN r
    ELSE grow_loop(r.h, next_growby(growby, rounded_up), rounded_up, avail)

\* while let Err(_) = heap_grow(growby) { ... }
grow_loop(h, growby, rounded_up, avail) ==
    grow_retry(heap_grow(h, growby, avail), growby, rounded_up, avail)

\* (*head).header.size -= left_over
shrink_header(h, head, left_over) ==
    set_size(h, head, hdr_size(h, head) - left_over)

\* create_allocation_header(head, 0, (*head).header.size(),
\*                          (*head).header.left)
retag_header(h, head) ==
    create_allocation_header(h, head, 0, hdr_size(h, head),
                             hdr_left(h, head))

\* the part of cmpct_alloc after a bucket was found; this variant carves
\* the remainder without leaving room for the header of the allocation
alloc_from_bucket_short(h, sz, rounded_up, bucket) ==
    IF ~BucketOk(bucket) THEN Fault(h, "index")
    ELSE IF list_empty(h, bucket) THEN Fault(h, "assert")
    ELSE
    LET head == list_head(h, bucket)
        short == rounded_up - SIZE_OF_HEADER_T
    IN IF head = NULL THEN Fault(h, "panic")
       ELSE IF hdr_size(h, head) < rounded_up THEN Fault(h, "overflow")
       ELSE
       LET left_over == hdr_size(h, head) - short
           right == right_header(h, head)
           g1 == unlink_free(h, head, bucket)
           free == head + short
           g2 == create_free_area(g1, free, head, left_over)
           g3 == set_left(g2, right, free)
           h1 == shrink_header(g3, head, left_over)
           h2 == retag_header(h1, head)
       IN memset(h2, head + SIZE_OF_HEADER_T, 0, sz)

\* the part of cmpct_alloc after `head` was read from the bucket
alloc_from_head(h, sz, rounded_up, bucket, head) ==
    IF head = NULL THEN Fault(h, "panic")
    ELSE IF hdr_size(h, head) < rounded_up THEN Fault(h, "overflow")
    ELSE
    LET left_over == hdr_size(h, head) - rounded_up
        h1 == IF left_over >= SIZE_OF_FREE_T /\ left_over > (sz \div 64)
              THEN LET right == right_header(h, head)
                       g1 == unlink_free(h, head, bucket)
                       free == head + rounded_up
                       g2 == create_free_area(g1, free, head, left_over)
                       g3 == set_left(g2, right, free)
                   IN shrink_header(g3, head, left_over)
              ELSE unlink_free(h, head, bucket)
        h2 == retag_header(h1, head)
    IN memset(h2, head + SIZE_OF_HEADER_T, 0, sz)

\* the part of cmpct_alloc after a bucket was found
alloc_from_bucket(h, sz, rounded_up, bucket) ==
    IF ~BucketOk(bucket) THEN Fault(h, "index")
    ELSE IF list_empty(h, bucket) THEN Fault(h, "assert")
    ELSE alloc_from_head(h, sz, rounded_up, bucket, list_head(h, bucket))

\* what a call returns: null when the kernel stopped on the way
returned(hh, payload) ==
    [h |-> hh, ret |-> IF Dead(hh) THEN NULL ELSE payload]

\* from the bucket to the returned payload
alloc_in_bucket(h, sz, rounded_up, bucket) ==
    returned(alloc_from_bucket(h, sz, rounded_up, bucket),
             list_head(h, bucket) + SIZE_OF_HEADER_T)

\* after the loop: r is the result of the last heap_grow
alloc_after_grow(r, sz, rounded_up, start_bucket) ==
    IF Dead(r.h) \/ ~r.ok THEN [h |-> r.h, ret |-> NULL]
    ELSE IF find_nonempty_bucket(r.h, start_bucket) = -1
    THEN [h |-> Fault(r.h, "panic"), ret |-> NULL]
    ELSE alloc_in_bucket(r.h, sz, rounded_up,
                         find_nonempty_bucket(r.h, start_bucket))

cmpct_alloc(h, sz, avail) ==
    IF Dead(h) \/ sz = 0 \/ sz > HEAP_MAX_ALLOC_SIZE
    THEN [h |-> h, ret |-> NULL]
    ELSE
    LET a == size_to_index_allocating(sz)
        start_bucket == a.bucket
        rounded_up == a.size + SIZE_OF_HEADER_T
        found == find_nonempty_bucket(h, start_bucket)
        growby == first_growby(h.size, rounded_up)
    IN IF found # -1 THEN alloc_in_bucket(h, sz, rounded_up, found)
       ELSE IF growby < rounded_up
       THEN [h |-> Fault(h, "assert"), ret |-> NULL]
       ELSE alloc_after_grow(grow_loop(h, growby, rounded_up, avail),
                             sz, rounded_up, start_bucket)

\* checks the header but releases nothing
cmpct_free_internal_noop(h, header) ==
    LET h0 == Need(h, header)
    IN IF Dead(h0) THEN h0
       ELSE IF is_tagged_as_free(h0, header) THEN Fault(h0, "assert")
       ELSE h0

\* `right` is free too, or not; h is the heap past unlinking `left`
coalesce_left(h, sz, left, left_left, right) ==
    IF Dead(h) THEN h
    ELSE IF is_tagged_as_free(h, right)
    THEN LET relink(g) == set_left(g, right_header(g, right), left)
             done(g) == free_memory(g, left, left_left,
                            hdr_size(g, left) + sz + hdr_size(g, right))
         IN done(relink(unlink_free_unknown_bucket(h, right)))
    ELSE LET done(g) == free_memory(g, left, left_left,
                                    hdr_size(g, left) + sz)
         IN done(set_left(h, right, left))

\* the else branch: `left` is not free
coalesce_right(h, header, sz, left, right) ==
    IF Dead(h) THEN h
    ELSE IF is_tagged_as_free(h, right)
    THEN LET done(g) == free_memory(g, header, left,
                                    sz + hdr_size(g, right))
         IN done(set_left(unlink_free_unknown_bucket(h, right),
                          right_header(h, right), header))
    ELSE free_memory(h, header, left, sz)

\* from the dprintf on: h is the heap after its reads of (*left)
coalesce(h, header, sz, left) ==
    IF Dead(h) THEN h
    ELSE IF left # NULL /\ is_tagged_as_free(h, left)
    THEN LET right_of(g) == coalesce_left(Need(g, right_header(g, header)),
                                sz, left, hdr_left(g, left),
                                right_header(g, header))
         IN right_of(unlink_free_unknown_bucket(h, left))
    ELSE coalesce_right(Need(h, right_header(h, header)), header, sz, left,
                        right_header(h, header))

cmpct_free_internal(h, header) ==
    LET h0 == Need(h, header)
        sz == hdr_size(h0, header)
        left == hdr_left(h0, header)
    IN IF Dead(h0) THEN h0
       ELSE IF is_tagged_as_free(h0, header) THEN Fault(h0, "assert")
       ELSE IF sz <= SIZE_OF_HEADER_T THEN Fault(h0, "assert")
       ELSE coalesce(Need(h0, left), header, sz, left)

cmpct_free(h, payload) ==
    IF Dead(h) \/ payload = NULL THEN h
    ELSE cmpct_free_internal(h, payload - SIZE_OF_HEADER_T)

\* carves the aligned block but leaves the `left` of the right neighbour
\* pointing at the unaligned block
align_payload_nolink(r, align) ==
    LET unaligned == r.ret
        mask == align - 1
        payload == ((unaligned + SIZE_OF_FREE_T + mask) \div align) * align
    IN IF unaligned = NULL THEN r
       ELSE IF unaligned = payload THEN [h |-> r.h, ret |-> payload]
       ELSE
       LET unaligned_header == unaligned - SIZE_OF_HEADER_T
           header == payload - SIZE_OF_HEADER_T
           left_over == payload - unaligned
           h1 == create_allocation_header(r.h, header, 0,
                     hdr_size(r.h, unaligned_header) - left_over,
                     unaligned_header)
           h2 == set_size(h1, unaligned_header, left_over)
       IN returned(cmpct_free(h2, unaligned), payload)

\* cmpct_memalign after its cmpct_alloc(padded_size) returned r
align_payload(r, align) ==
    LET unaligned == r.ret
        mask == align - 1
        payload == ((unaligned + SIZE_OF_FREE_T + mask) \div align) * align
    IN IF unaligned = NULL THEN r
       ELSE IF unaligned = payload THEN [h |-> r.h, ret |-> payload]
       ELSE
       LET unaligned_header == unaligned - SIZE_OF_HEADER_T
           header == payload - SIZE_OF_HEADER_T
           left_over == payload - unaligned
           h1 == create_allocation_header(r.h, header, 0,
                     hdr_size(r.h, unaligned_header) - left_over,
                     unaligned_header)
           right == right_header(h1, unaligned_header)
           h2 == set_size(h1, unaligned_header, left_over)
           h3 == set_left(h2, right, header)
       IN returned(cmpct_free(h3, unaligned), payload)

cmpct_memalign(h, align, sz, avail) ==
    IF sz = 0 THEN [h |-> h, ret |-> NULL]
    ELSE IF align < 8 THEN cmpct_alloc(h, sz, avail)
    ELSE align_payload(cmpct_alloc(h, sz + align + SIZE_OF_FREE_T, avail),
                       align)

(***************************************************************************)
(* The heap's clients (tests/cmpct.rs): allocate and fill_in, later        *)
(* check_on and free.                                                      *)
(***************************************************************************)
\* request sizes: 0 is rejected; 8 gives the smallest block; 300000 does
\* not fit the initial OS allocation
AllocSizes == {0, 8, 16, 24, 300000}
\* (align, size) requests to cmpct_memalign
AlignRequests == {<<64, 16>>}
\* pages the PMM can provide during one call: none, or plenty
AvailPages == {0, 1024}
PlentyPages == CHOOSE n \in AvailPages : \A m \in AvailPages : m <= n
\* a client fills allocations of at most this many bytes
WriteMax == 64

\* the bytes of [p, p + n) present in m satisfy Ok(byte)
BytesIn(m, p, n, v) ==
    \A a \in DOMAIN m :
        (a + 7 >= p /\ a < p + n) =>
            \A k \in 0..7 : (a + k >= p /\ a + k < p + n) =>
                               GetByte(m[a], k) = v

\* number of memory words that overlap [p, p + n), n > 0
WordsOf(p, n) == ((p + n - 1) \div 8) - (p \div 8) + 1

\* every byte of [p, p + n) is zero
AllZero(h, p, n) ==
    \/ n = 0
    \/ /\ BytesIn(h.mem, p, n, 0)
       /\ \/ fresh = 0
          \/ Cardinality({a \in DOMAIN h.mem : a + 7 >= p /\ a < p + n})
                 = WordsOf(p, n)

\* check_on: every byte of [p, p + n) still holds what fill_in stored
check_on(h, p, n) ==
    \A i \in 0..(n - 1) :
        GetByte(Ld(h, (p + i) - ((p + i) % 8)), (p + i) % 8) = PAT_BYTE

fill_in(h, p, n) ==
    IF p = NULL \/ n > WriteMax THEN h ELSE SetBytes(h, p, PAT_BYTE, n)

\* Heap::new() and the list inits of cmpct_init
EmptyHeap ==
    [mem |-> <<>>, size |-> 0, remaining |-> 0, cached |-> NULL,
     bits |-> [i \in 0..(BUCKET_WORDS - 1) |-> {}],
     os |-> {}, nss |-> BITMAP_PAGES, panic |-> "none", nullmap |-> FALSE]

\* heap_grow(HEAP_USABLE_GROW_SIZE), the last step of cmpct_init
cmpct_init(h, avail) ==
    LET done(r) == IF Dead(r.h) \/ r.ok THEN r.h ELSE Fault(r.h, "init")
    IN done(heap_grow(h, HEAP_USABLE_GROW_SIZE, avail))

NoQuery == [size |-> 0, alloc |-> 0, free |-> 0, done |-> FALSE]
NoScen == [step |-> 0, p1 |-> NULL, p2 |-> NULL]
NoGrow == [pc |-> "idle", heap_size |-> 0, size |-> 0, rounded_up |-> 0,
           growby |-> 0, before |-> 0, tries |-> 0]
\* a CPU that is not inside cmpct_alloc
Outside == [pc |-> "out", size |-> 0, rounded_up |-> 0, bucket |-> 0,
            head |-> NULL, got |-> {}]
CPUs == {1, 2}
NoThr == [t \in CPUs |-> Outside]
\* VirtualAlloc::new, with an empty page table and PMM
NoVa == [build |-> "release", nullgo |-> FALSE, junk |-> {},
         alloc_guard |-> 0, alloc_base |-> 0, alloc_top |-> FALSE,
         next_search_start |-> 0, align_log2 |-> 0,
         bsize |-> 0, storage_num |-> 0, words |-> <<>>,
         mapped |-> {}, pmm |-> 0, panic |-> "none", res |-> "new",
         ret |-> 0]
\* the client has called nothing yet
NoClient == [op |-> "new", live |-> {}, ops |-> 0, bad |-> FALSE,
             scen |-> 0]
\* PmmNode::new and PmmNode::init: no arena, an empty free list, no boot
\* reservation; page is the state of every page descriptor, by page frame
NoPmm == [build |-> "release", phase |-> "reserve", reserves |-> <<>>,
          arenas |-> <<>>, arena_cumulative_size |-> 0,
          page |-> [f \in {} |-> 0], free |-> <<>>, count |-> 0,
          taken |-> {}, reserved |-> <<>>, panic |-> "none",
          res |-> "new", err |-> "none", ret |-> <<>>, ops |-> 0,
          op |-> [name |-> "new", x |-> 0, y |-> 0],
          was |-> [count |-> 0, free |-> <<>>, arenas |-> <<>>,
                   page |-> [f \in {} |-> 0]]]
\* the threads that use the mutex, named by their non-zero thread pointer
Threads == {1, 2, 3}
\* Mutex::new: owner 0, with the data it was built around
\* Mutex::new: owner 0, with the data it was built around. view is what a
\* thread reads through its guard, lastw and lastby the last value written
\* through a guard and its writer
NoMutex == [owner |-> 0, data |-> 0, panic |-> "none", ops |-> 0,
            lastw |-> 0, lastby |-> 0,
            op |-> [name |-> "new", by |-> 0, owner |-> 0],
            thread |-> [t \in Threads |-> [pc |-> "out", view |-> 0]]]
NoRep == [step |-> 0, p |-> NULL, size |-> 0, q |-> NULL, grew |-> FALSE]
Obs(op, ptr, sz, zero, intact) ==
    [op |-> op, ptr |-> ptr, size |-> sz, zero |-> zero, intact |-> intact]

Install(h) ==
    /\ mem' = Norm(h.mem)
    /\ size' = h.size
    /\ remaining' = h.remaining
    /\ cached_os_alloc' = h.cached
    /\ free_list_bits' = h.bits
    /\ os_areas' = h.os
    /\ next_search_start' = h.nss
    /\ panicked' = h.panic

Init ==
    /\ ptr_hi \in {0, 1}
    /\ fresh \in {0, PAT}
    /\ mem = <<>>
    /\ size = 0
    /\ remaining = 0
    /\ cached_os_alloc = NULL
    /\ free_list_bits = [i \in 0..(BUCKET_WORDS - 1) |-> {}]
    /\ os_areas = {}
    /\ next_search_start = BITMAP_PAGES
    /\ panicked = "none"
    /\ live = {}
    /\ ops = 0
    /\ last = Obs("new", NULL, 0, TRUE, TRUE)
    /\ scen = NoScen
    /\ rep = NoRep
    /\ q = NoQuery
    /\ growth = NoGrow
    /\ thr = NoThr
    /\ valloc = NoVa
    /\ vcl = NoClient
    /\ pmm_node = NoPmm
    /\ mutex = NoMutex

\* heap_init: the heap comes up with its first OS allocation
CmpctInit ==
    /\ last.op = "new"
    /\ Install(cmpct_init(H, PlentyPages))
    /\ last' = Obs("init", NULL, 0, TRUE, TRUE)
    /\ UNCHANGED <<ptr_hi, fresh, live, ops, scen, rep, probes>>

Running ==
    panicked = "none" /\ last.op # "new" /\ ops < MaxOps

\* scenario C: allocate(16) twice on the fresh heap, free in reverse order
ScenStep(op, ptr, sz) ==
    IF scen.step = 0 /\ ops = 0 /\ op = "alloc" /\ sz = 16 /\ ptr # NULL
    THEN [step |-> 1, p1 |-> ptr, p2 |-> NULL]
    ELSE IF scen.step = 1 /\ op = "alloc" /\ sz = 16 /\ ptr # NULL
    THEN [scen EXCEPT !.step = 2, !.p2 = ptr]
    ELSE IF scen.step = 2 /\ op = "free" /\ ptr = scen.p2
    THEN [scen EXCEPT !.step = 3]
    ELSE IF scen.step = 3 /\ op = "free" /\ ptr = scen.p1
    THEN [scen EXCEPT !.step = 4]
    ELSE [step |-> -1, p1 |-> NULL, p2 |-> NULL]

\* p = allocate(s) with nothing else live, free(p), q = allocate(s);
\* `grew` tells whether the heap took pages from the page layer meanwhile
RepStep(op, ptr, sz, idle, grew) ==
    IF rep.step = 1 /\ op = "free" /\ ptr = rep.p
    THEN [rep EXCEPT !.step = 2, !.grew = grew]
    ELSE IF rep.step = 2 /\ op = "alloc" /\ sz = rep.size
    THEN [rep EXCEPT !.step = 3, !.q = ptr, !.grew = @ \/ grew]
    ELSE IF op = "alloc" /\ idle /\ ptr # NULL
    THEN [step |-> 1, p |-> ptr, size |-> sz, q |-> NULL, grew |-> FALSE]
    ELSE NoRep

\* what the client does with the result r of an allocation call
Took(op, r, sz) ==
    /\ Install(fill_in(r.h, r.ret, sz))
    /\ live' = IF r.ret = NULL THEN live
               ELSE live \cup {[ptr |-> r.ret, size |-> sz]}
    /\ last' = Obs(op, r.ret, sz,
                   r.ret = NULL \/ AllZero(r.h, r.ret, sz), TRUE)
    /\ scen' = ScenStep(op, r.ret, sz)
    /\ rep' = RepStep(op, r.ret, sz, live = {},
                      r.h.nss # next_search_start)
    /\ ops' = ops + 1
    /\ UNCHANGED <<ptr_hi, fresh, probes>>

\* cmpct_alloc(sz) reaches heap_grow, and with it the page layer
Grows(sz) ==
    /\ sz > 0
    /\ sz <= HEAP_MAX_ALLOC_SIZE
    /\ find_nonempty_bucket(H, size_to_index_allocating(sz).bucket) = -1

\* the pages the PMM has matter only to a call that asks for pages
Avail(sz) == IF Grows(sz) THEN AvailPages ELSE {PlentyPages}

\* the outcomes of a call: where the call dereferences a null pointer, the
\* one in which the kernel traps and the one in which the read goes through
AllocOutcomes(sz, avail) ==
    LET both(r) == IF r.h.panic = "null"
                   THEN {r, cmpct_alloc(HN(TRUE), sz, avail)} ELSE {r}
    IN both(cmpct_alloc(HN(FALSE), sz, avail))

MemalignOutcomes(align, sz, avail) ==
    LET both(r) == IF r.h.panic = "null"
                   THEN {r, cmpct_memalign(HN(TRUE), align, sz, avail)}
                   ELSE {r}
    IN both(cmpct_memalign(HN(FALSE), align, sz, avail))

FreeOutcomes(p) ==
    LET both(h) == IF h.panic = "null"
                   THEN {h, cmpct_free(HN(TRUE), p)} ELSE {h}
    IN both(cmpct_free(HN(FALSE), p))

Alloc(sz, avail) ==
    /\ Running
    /\ Cardinality(live) < MaxLive
    /\ \E r \in AllocOutcomes(sz, avail) : Took("alloc", r, sz)

Memalign(align, sz, avail) ==
    /\ Running
    /\ Cardinality(live) < MaxLive
    /\ \E r \in MemalignOutcomes(align, sz, avail) : Took("memalign", r, sz)

Free(a) ==
    /\ Running
    /\ a \in live
    /\ \E h \in FreeOutcomes(a.ptr) : Install(h)
    /\ live' = live \ {a}
    /\ last' = Obs("free", a.ptr, a.size, TRUE,
                   a.size > WriteMax \/ check_on(H, a.ptr, a.size))
    /\ scen' = ScenStep("free", a.ptr, a.size)
    /\ rep' = RepStep("free", a.ptr, a.size, FALSE,
                      next_search_start' # next_search_start)
    /\ ops' = ops + 1
    /\ UNCHANGED <<ptr_hi, fresh, probes>>

FreeNull ==
    /\ Running
    /\ Install(cmpct_free(H, NULL))
    /\ last' = Obs("free", NULL, 0, TRUE, TRUE)
    /\ scen' = ScenStep("free", NULL, 0)
    /\ rep' = RepStep("free", NULL, 0, FALSE, FALSE)
    /\ ops' = ops + 1
    /\ UNCHANGED <<ptr_hi, fresh, probes, live>>

Next ==
    \/ CmpctInit
    \/ \E sz \in AllocSizes : \E avail \in Avail(sz) : Alloc(sz, avail)
    \/ \E r \in AlignRequests :
           \E avail \in Avail(r[1] + r[2] + SIZE_OF_FREE_T) :
               Memalign(r[1], r[2], avail)
    \/ \E a \in live : Free(a)
    \/ FreeNull

Spec == Init /\ [][Next]_vars

(***************************************************************************)
(* Reading a heap state: the blocks of each OS allocation in address order *)
(* and the members of each bucket list.                                    *)
(***************************************************************************)
\* a list walk gives up after this many nodes
MaxWalk == 8

\* the OS allocations that are part of the heap (the cached one is not)
HeapAreas(h) == {r \in h.os : r.base # h.cached}

RECURSIVE BlocksFrom(_, _, _)
\* the headers met from p by stepping by `size`, up to a zero or bad size
BlocksFrom(h, p, end) ==
    IF p >= end THEN {}
    ELSE LET s == hdr_size(h, p)
         IN IF s < SIZE_OF_HEADER_T \/ s % 8 # 0 THEN {p}
            ELSE {p} \cup BlocksFrom(h, p + s, end)

Blocks(h, r) == BlocksFrom(h, r.base, r.base + r.len)
AllBlocks(h) == UNION {Blocks(h, r) : r \in HeapAreas(h)}

RECURSIVE NodesFrom(_, _, _, _)
\* the free_t's linked in bucket b from node n on, in list order
NodesFrom(h, b, n, k) ==
    IF n = ListAddr(b) \/ n = NULL \/ n = WILD \/ k = 0 \/ ~Mapped(h, n)
    THEN <<>>
    ELSE <<from_node(n)>> \o NodesFrom(h, b, AsPtr(Ld(h, n)), k - 1)

Members(h, b) == NodesFrom(h, b, AsPtr(Ld(h, ListAddr(b))), MaxWalk)

\* every link of the bucket lists: <<bucket, position, block>>
ListEntries(h) ==
    UNION {LET m == Members(h, b)
           IN {<<b, i, m[i]>> : i \in DOMAIN m} :
               b \in 0..(NUMBER_OF_BUCKETS - 1)}

\* the free blocks of the heap with their sizes
FreeBlocks(h) ==
    {<<x, hdr_size(h, x)>> : x \in {y \in AllBlocks(h) : is_tagged_as_free(h, y)}}

\* the block whose payload starts at p
HeaderOf(p) == p - SIZE_OF_HEADER_T

(***************************************************************************)
(* Properties of the heap under Spec.  A state in which the kernel has     *)
(* panicked is a stopped kernel; the structural properties are stated for  *)
(* the states in which it runs.                                            *)
(***************************************************************************)
Disjoint(p1, n1, p2, n2) == p1 + n1 <= p2 \/ p2 + n2 <= p1

\* C1: no two live allocations overlap, and no live allocation contains the
\* header of any block of the heap.
C1_NoOverlap ==
    panicked = "none" =>
        /\ \A a, b \in live :
               a # b => Disjoint(a.ptr, a.size, b.ptr, b.size)
        /\ \A a \in live : \A x \in AllBlocks(H) :
               Disjoint(a.ptr, a.size, x, SIZE_OF_HEADER_T)

\* allocations are live in neighbouring blocks, and the last call was an
\* allocation made after earlier allocations and a free
C1_Witness ==
    /\ panicked = "none"
    /\ Cardinality(live) >= 2
    /\ last.op = "alloc"
    /\ ops >= 4
    /\ \E a, b \in live :
           HeaderOf(b.ptr) = right_header(H, HeaderOf(a.ptr))

\* C2: every successful cmpct_alloc(size) returns size zero bytes.
C2_ZeroFilled ==
    (last.op = "alloc" /\ last.ptr # NULL) => last.zero

\* C3: an allocation lies inside its block, its data is read back unchanged
\* at the time of the free, and that free succeeds (a free that stops in the
\* unfinished unmap_free_pages is not held against it); cmpct_alloc(0)
\* returns null and cmpct_free(null) changes nothing.
C3_AllocFreeContract ==
    /\ (last.op \in {"alloc", "memalign"} /\ last.size = 0) => last.ptr = NULL
    /\ (last.op = "alloc" /\ last.ptr # NULL /\ panicked = "none") =>
           last.size + SIZE_OF_HEADER_T <= hdr_size(H, HeaderOf(last.ptr))
    /\ (last.op = "free" /\ last.ptr # NULL) =>
           (last.intact /\ panicked \in {"none", "todo"})
    /\ (last.op = "free" /\ last.ptr = NULL) => panicked = "none"

\* C4: no block and its right neighbour in address order are both free.
C4_NoAdjacentFree ==
    panicked = "none" =>
        \A x \in AllBlocks(H) :
            (is_tagged_as_free(H, x) /\ right_header(H, x) \in AllBlocks(H))
                => ~is_tagged_as_free(H, right_header(H, x))

\* C5: in each OS allocation of the heap, stepping by size from the left
\* sentinel (left = null) ends exactly on the zero-sized right sentinel, and
\* the stored left of every other block is the block that precedes it.
C5_Tiling ==
    panicked = "none" =>
        \A r \in HeapAreas(H) :
            LET bs == Blocks(H, r)
                last_hdr == r.base + r.len - SIZE_OF_HEADER_T
            IN /\ Ld(H, r.base) = None
               /\ last_hdr \in bs
               /\ hdr_size(H, last_hdr) = 0
               /\ \A x \in bs \ {r.base} :
                      /\ hdr_left(H, x) \in bs
                      /\ right_header(H, hdr_left(H, x)) = x

\* C6: a block has FREE_BIT set iff it is linked exactly once in the bucket
\* lists, and then in bucket size_to_index_freeing(size - header size);
\* sentinels and allocated blocks are linked nowhere.
C6_FlagIffListed ==
    panicked = "none" =>
        LET E == ListEntries(H)
        IN \A x \in AllBlocks(H) :
               LET links == {e \in E : e[3] = x}
               IN IF is_tagged_as_free(H, x)
                  THEN /\ Cardinality(links) = 1
                       /\ \A e \in links :
                              e[1] = size_to_index_freeing(
                                         hdr_size(H, x) - SIZE_OF_HEADER_T)
                  ELSE links = {}

\* a small free block and a large one are linked, each in its own bucket,
\* next to allocated blocks
C6_Witness ==
    /\ panicked = "none"
    /\ Cardinality(FreeBlocks(H)) >= 2
    /\ live # {}
    /\ Cardinality({e[1] : e \in ListEntries(H)}) >= 2

\* free(x) then free(y), from the current state
FreeBoth(x, y) == cmpct_free(cmpct_free(H, x.ptr), y.ptr)

\* two heaps ended the same way: both stopped alike, or both run with the
\* same free blocks in the same buckets and the same accounting
SameOutcome(g, k) ==
    /\ g.panic = k.panic
    /\ g.panic = "none" =>
           /\ g.remaining = k.remaining
           /\ g.size = k.size
           /\ g.bits = k.bits
           /\ g.cached = k.cached
           /\ FreeBlocks(g) = FreeBlocks(k)
           /\ {<<e[1], e[3]>> : e \in ListEntries(g)}
                  = {<<e[1], e[3]>> : e \in ListEntries(k)}

\* C7: freeing two allocated blocks that are neighbours in address order ends
\* in the same heap whichever of the two is freed first.
C7_OrderIndependent ==
    panicked = "none" =>
        \A a, b \in live :
            HeaderOf(b.ptr) = right_header(H, HeaderOf(a.ptr))
                => SameOutcome(FreeBoth(a, b), FreeBoth(b, a))

Bucket16 == size_to_index_allocating(16).bucket

\* the two pointers of scenario C are at least 16 + header size apart
ScenApart ==
    scen.step >= 2 =>
        \/ scen.p1 + 16 + SIZE_OF_HEADER_T <= scen.p2
        \/ scen.p2 + 16 + SIZE_OF_HEADER_T <= scen.p1

\* C9 as stated: after scenario C a search of the bitmap from the 16-byte
\* bucket finds a nonempty bucket.
C9_ScenarioFinds ==
    /\ ScenApart
    /\ scen.step = 4 =>
           (panicked = "none" /\ find_nonempty_bucket(H, Bucket16) # -1)

\* C9, amended: after scenario C the whole OS allocation has been merged and
\* is kept as cached_os_alloc; no bucket is nonempty and the search fails.
C9_ScenarioCaches ==
    /\ ScenApart
    /\ scen.step = 4 =>
           /\ panicked = "none"
           /\ find_nonempty_bucket(H, Bucket16) = -1
           /\ cached_os_alloc # NULL
           /\ cached_os_alloc + SIZE_OF_HEADER_T + SIZE_OF_HEADER_T = scen.p1
           /\ HeapAreas(H) = {}
           /\ remaining = 0

\* scenario C has run to its end
C9_Witness ==
    scen.step = 4 /\ panicked = "none" /\ scen.p1 # scen.p2

(***************************************************************************)
(* The bucketing functions on their own: one size is drawn, then both      *)
(* indices are computed for it.                                            *)
(***************************************************************************)
\* every size up to this one is queried
SmallMax == 1100
\* sizes this close to a row boundary 2^r or a bucket boundary are queried
Near == 9
\* bucket boundaries (8 + c) * 2^r above the 8-spaced buckets
Boundaries == {(8 + c) * Pow2(r) : c \in 0..7, r \in 4..(HEAP_ALLOC_VIRTUAL_BITS - 4)}
QuerySizes ==
    (1..SmallMax) \cup
    {b + d : b \in Boundaries \cup {HEAP_MAX_ALLOC_SIZE}, d \in (0 - Near)..Near}

InitSizes ==
    /\ ptr_hi = 0
    /\ fresh = 0
    /\ mem = <<>>
    /\ size = 0
    /\ remaining = 0
    /\ cached_os_alloc = NULL
    /\ free_list_bits = [i \in 0..(BUCKET_WORDS - 1) |-> {}]
    /\ os_areas = {}
    /\ next_search_start = BITMAP_PAGES
    /\ panicked = "none"
    /\ live = {}
    /\ ops = 0
    /\ last = Obs("new", NULL, 0, TRUE, TRUE)
    /\ scen = NoScen
    /\ rep = NoRep
    /\ q \in {[NoQuery EXCEPT !.size = s] :
                 s \in {x \in QuerySizes : x >= 1 /\ x <= HEAP_MAX_ALLOC_SIZE}}
    /\ growth = NoGrow
    /\ thr = NoThr
    /\ valloc = NoVa
    /\ vcl = NoClient
    /\ pmm_node = NoPmm
    /\ mutex = NoMutex

Query ==
    /\ ~q.done
    /\ q' = [q EXCEPT !.alloc = size_to_index_allocating(q.size).bucket,
                      !.free = size_to_index_freeing(q.size),
                      !.done = TRUE]
    /\ UNCHANGED <<mem, size, remaining, cached_os_alloc, free_list_bits,
                   os_areas, next_search_start, panicked, ptr_hi, fresh,
                   live, ops, last, scen, rep, growth, thr, valloc, vcl,
                   pmm_node, mutex>>

NextSizes == Query

SpecSizes == InitSizes /\ [][NextSizes]_vars

\* C10 as stated: for every size from 1 to HEAP_MAX_ALLOC_SIZE the allocating
\* index is at least the freeing index, and both lie in [0, NUMBER_OF_BUCKETS)
\* without underflow (an index below 0 is the usize underflow of (size>>3)-1).
C10_AllSizes ==
    q.done => /\ q.alloc >= q.free
              /\ BucketOk(q.alloc)
              /\ BucketOk(q.free)

\* C10, amended: the same for every size from 8 to HEAP_MAX_ALLOC_SIZE; for
\* sizes 1..7 only the allocating index is in range.
C10_FromEight ==
    q.done =>
        /\ BucketOk(q.alloc)
        /\ q.size >= 8 => (q.alloc >= q.free /\ BucketOk(q.free))

\* a size of the last bucket row was queried and got the two last indices
C10_Witness ==
    q.done /\ q.size = HEAP_MAX_ALLOC_SIZE /\ q.alloc > q.free /\ q.free > 15

(***************************************************************************)
(* Misuse and the cached OS allocation.                                    *)
(***************************************************************************)
\* the call that produced heap g left the heap of the current state as it is
Untouched(g) ==
    /\ Norm(g.mem) = mem
    /\ g.size = size
    /\ g.remaining = remaining
    /\ g.cached = cached_os_alloc
    /\ g.bits = free_list_bits
    /\ g.os = os_areas
    /\ g.nss = next_search_start

\* C11: after a successful free(p), a second free(p) stops in the assertion
\* of cmpct_free_internal and leaves the heap as it is.
C11_DoubleFreeAsserts ==
    (last.op = "free" /\ last.ptr # NULL /\ panicked = "none") =>
        \A g \in FreeOutcomes(last.ptr) :
            g.panic = "assert" /\ Untouched(g)

\* the OS allocation that holds address p
AreaOf(p) == CHOOSE r \in os_areas : p >= r.base /\ p < r.base + r.len

\* a is the only live allocation of OS allocation r
LastIn(a, r) ==
    \A b \in live \ {a} : b.ptr < r.base \/ b.ptr >= r.base + r.len

\* the block at x is part of a free block of g that is linked in the bucket
\* of its size
Reinserted(g, x) ==
    \E e \in ListEntries(g) :
        /\ e[3] <= x
        /\ x < e[3] + hdr_size(g, e[3])
        /\ is_tagged_as_free(g, e[3])
        /\ e[1] = size_to_index_freeing(hdr_size(g, e[3]) - SIZE_OF_HEADER_T)

\* C12: on a well-formed heap, a free that empties an OS allocation makes
\* that allocation the cached one, and an allocation cached before has gone
\* back to the page layer; any other free leaves the merged block linked in
\* the bucket of its size.
C12_CachesWholeArea ==
    (panicked = "none" /\ C5_Tiling) =>
        \A a \in live : \A g \in FreeOutcomes(a.ptr) :
            IF LastIn(a, AreaOf(a.ptr))
            THEN /\ g.cached = AreaOf(a.ptr).base
                 /\ \A o \in g.os :
                        o.base = cached_os_alloc => o.base = g.cached
            ELSE g.panic = "none" /\ Reinserted(g, HeaderOf(a.ptr))

(***************************************************************************)
(* The growth loop of cmpct_alloc on its own: the heap size and the        *)
(* request are drawn at the start, every step is one heap_grow(growby),    *)
(* which the page layer lets succeed, fail, or which stops the kernel.     *)
(***************************************************************************)
\* no run of the loop makes more heap_grow calls than this
MaxTries == 24
\* heap.size when cmpct_alloc finds no bucket
GrowHeapSizes ==
    {0, HEAP_GROW_SIZE, 8 * HEAP_GROW_SIZE, 16 * HEAP_GROW_SIZE,
     64 * HEAP_GROW_SIZE, 1024 * HEAP_GROW_SIZE}
\* the sizes requested
GrowRequests ==
    {1, 8, 100, PAGE_SIZE, HEAP_USABLE_GROW_SIZE - SIZE_OF_HEADER_T,
     HEAP_GROW_SIZE, 300000, 600000, HEAP_MAX_ALLOC_SIZE}
\* what a heap_grow call can do to the loop
GrowResults == {"ok", "err", "stop"}

InitGrow ==
    /\ ptr_hi = 0
    /\ fresh = 0
    /\ mem = <<>>
    /\ size = 0
    /\ remaining = 0
    /\ cached_os_alloc = NULL
    /\ free_list_bits = [i \in 0..(BUCKET_WORDS - 1) |-> {}]
    /\ os_areas = {}
    /\ next_search_start = BITMAP_PAGES
    /\ panicked = "none"
    /\ live = {}
    /\ ops = 0
    /\ last = Obs("new", NULL, 0, TRUE, TRUE)
    /\ scen = NoScen
    /\ rep = NoRep
    /\ q = NoQuery
    /\ thr = NoThr
    /\ valloc = NoVa
    /\ vcl = NoClient
    /\ pmm_node = NoPmm
    /\ mutex = NoMutex
    /\ growth \in
           {[NoGrow EXCEPT !.pc = "start", !.heap_size = hs, !.size = sz,
                           !.rounded_up = size_to_index_allocating(sz).size
                                              + SIZE_OF_HEADER_T] :
                hs \in GrowHeapSizes, sz \in GrowRequests}

\* Err(_) of find_nonempty_bucket: growby, and ZX_ASSERT!(growby >= rounded_up)
GrowStart ==
    /\ growth.pc = "start"
    /\ growth' =
           LET growby == first_growby(growth.heap_size, growth.rounded_up)
           IN [growth EXCEPT !.growby = growby,
                             !.pc = IF growby >= growth.rounded_up
                                    THEN "loop" ELSE "assert"]
    /\ UNCHANGED <<heapstate, q, thr, valloc, vcl, pmm_node, mutex>>

\* one evaluation of `while let Err(_) = heap_grow(growby)` and, on Err,
\* the body of the loop
GrowAttempt(res) ==
    /\ growth.pc = "loop"
    /\ growth.tries < MaxTries
    /\ growth' =
           IF res = "ok" THEN [growth EXCEPT !.pc = "grown"]
           ELSE IF res = "stop" THEN [growth EXCEPT !.pc = "panic"]
           ELSE IF growth.growby <= growth.rounded_up
           THEN [growth EXCEPT !.pc = "null"]
           ELSE [growth EXCEPT
                    !.growby = next_growby(growth.growby, growth.rounded_up),
                    !.before = growth.growby,
                    !.tries = @ + 1]
    /\ UNCHANGED <<heapstate, q, thr, valloc, vcl, pmm_node, mutex>>

NextGrow ==
    \/ GrowStart
    \/ \E res \in GrowResults : GrowAttempt(res)

SpecGrow == InitGrow /\ [][NextGrow]_vars

\* C13: the first request is the largest of heap.size / 8, the minimum grow
\* increment and the rounded request, capped at the largest OS allocation;
\* each retry asks for max(half the request that failed, rounded request),
\* which is less than before; null is returned exactly after a request equal
\* to the rounded request failed; and no run makes more heap_grow calls
\* than the largest request has bits.
C13_GrowthRetry ==
    /\ growth.pc # "assert"
    /\ (growth.pc = "loop" /\ growth.tries = 0) =>
           LET want == Max(growth.heap_size \div 8,
                           Max(HEAP_USABLE_GROW_SIZE, growth.rounded_up))
           IN growth.growby = IF want > HEAP_LARGE_ALLOC_BYTES
                            THEN HEAP_LARGE_ALLOC_BYTES ELSE want
    /\ growth.tries > 0 =>
           /\ growth.growby < growth.before
           /\ growth.growby >= growth.rounded_up
           /\ \/ growth.growby = growth.rounded_up
              \/ growth.growby = growth.before \div 2
           /\ growth.growby >= growth.before \div 2
    /\ growth.pc = "null" => growth.growby = growth.rounded_up
    /\ (growth.pc = "loop" /\ growth.growby = growth.rounded_up) =>
           growth.tries < MaxTries
    /\ growth.tries <= BitLen(HEAP_LARGE_ALLOC_BYTES)

\* a request was halved several times, then failed at the rounded request
C13_Witness ==
    /\ growth.pc = "null"
    /\ growth.tries >= 3
    /\ growth.heap_size > 8 * HEAP_USABLE_GROW_SIZE

(***************************************************************************)
(* cmpct_memalign on a well-formed heap.                                   *)
(***************************************************************************)
\* the boundary tags of heap g: every OS allocation is tiled from its left
\* sentinel to its right sentinel with consistent `left` fields, no two
\* neighbours are both free, and FREE_BIT goes with one link in the bucket
\* of the size
WellFormed(g) ==
    /\ g.panic = "none"
    /\ \A r \in HeapAreas(g) :
           LET bs == Blocks(g, r)
               last_hdr == r.base + r.len - SIZE_OF_HEADER_T
           IN /\ Ld(g, r.base) = None
              /\ last_hdr \in bs
              /\ hdr_size(g, last_hdr) = 0
              /\ \A x \in bs \ {r.base} :
                     /\ hdr_left(g, x) \in bs
                     /\ right_header(g, hdr_left(g, x)) = x
                     /\ ~(is_tagged_as_free(g, x)
                              /\ is_tagged_as_free(g, hdr_left(g, x)))
    /\ LET E == ListEntries(g)
       IN \A x \in AllBlocks(g) :
              LET links == {e \in E : e[3] = x}
              IN IF is_tagged_as_free(g, x)
                 THEN /\ Cardinality(links) = 1
                      /\ \A e \in links :
                             e[1] = size_to_index_freeing(
                                        hdr_size(g, x) - SIZE_OF_HEADER_T)
                 ELSE links = {}

\* alignments and sizes asked of cmpct_memalign
AlignChecks == {<<8, 1>>, <<8, 40>>, <<64, 1>>, <<64, 40>>, <<4096, 40>>}

\* r is the result of cmpct_memalign(align, sz): the payload is aligned and
\* lies in its block, the block to its left is the free block that took the
\* prefix, the heap is well formed, and freeing the payload keeps it so
GoodAlign(r, align, sz) ==
    LET p == r.ret
        x == HeaderOf(r.ret)
    IN /\ r.h.panic = "none"
       /\ p % align = 0
       /\ x \in AllBlocks(r.h)
       /\ ~is_tagged_as_free(r.h, x)
       /\ p + sz <= x + hdr_size(r.h, x)
       /\ is_tagged_as_free(r.h, hdr_left(r.h, x))
       /\ hdr_size(r.h, hdr_left(r.h, x)) >= SIZE_OF_FREE_T
       /\ WellFormed(r.h)
       /\ \/ cmpct_free(r.h, p).panic = "todo"
          \/ WellFormed(cmpct_free(r.h, p))

MaxRace == 2
RaceSizes == {8, 16, 40}

\* cmpct_alloc up to `let head = heap.free_lists[bucket].head()`, for the
\* calls that find a non-empty bucket without growing the heap
AllocEnter(t, sz) ==
    /\ last.op = "init"
    /\ panicked = "none"
    /\ thr[t].pc = "out"
    /\ Cardinality(thr[t].got) < MaxRace
    /\ LET a == size_to_index_allocating(sz)
           found == find_nonempty_bucket(H, a.bucket)
       IN /\ found # -1
          /\ IF list_empty(H, found) \/ list_head(H, found) = NULL
             THEN /\ Install(Fault(H, "assert"))
                  /\ thr' = thr
             ELSE /\ Install(H)
                  /\ thr' = [thr EXCEPT ![t] =
                                [@ EXCEPT !.pc = "head", !.size = sz,
                                          !.rounded_up =
                                              a.size + SIZE_OF_HEADER_T,
                                          !.bucket = found,
                                          !.head = list_head(H, found)]]
    /\ UNCHANGED <<ptr_hi, fresh, live, ops, last, scen, rep, q, growth,
                   valloc, vcl, pmm_node, mutex>>

\* the rest of cmpct_alloc, on the heap as it is by now
AllocLeave(t) ==
    /\ panicked = "none"
    /\ thr[t].pc = "head"
    /\ LET c == thr[t]
           done(r) ==
               /\ Install(r.h)
               /\ thr' = [thr EXCEPT ![t] =
                             [Outside EXCEPT !.got =
                                 IF r.ret = NULL THEN c.got
                                 ELSE c.got \cup {r.ret}]]
       IN done(returned(alloc_from_head(H, c.size, c.rounded_up, c.bucket,
                                        c.head),
                        c.head + SIZE_OF_HEADER_T))
    /\ UNCHANGED <<ptr_hi, fresh, live, ops, last, scen, rep, q, growth,
                   valloc, vcl, pmm_node, mutex>>

NextRace ==
    \/ CmpctInit
    \/ \E t \in CPUs : \E sz \in RaceSizes : AllocEnter(t, sz)
    \/ \E t \in CPUs : AllocLeave(t)

SpecRace == Init /\ [][NextRace]_vars

\* no block was handed to both CPUs (nothing is freed in SpecRace)
NoSharedBlock == thr[1].got \cap thr[2].got = {}

\* C15: calls from different CPUs are serialised: at no time are two calls
\* both between reading a bucket's head and taking it off its list, and no
\* block is returned by two allocate calls.
C15_Serialised ==
    /\ ~(thr[1].pc = "head" /\ thr[2].pc = "head")
    /\ NoSharedBlock

(***************************************************************************)
(* Part 2: the virtual-region allocator (kernel/src/allocator.rs) and its  *)
(* bitmap (kernel/src/klib/bitmap.rs).  The bitmap is modelled word by     *)
(* word as the code addresses it: storage unit `i` is a 64-bit usize, kept *)
(* as the set of its set bit positions 0..63, and a bit offset is turned   *)
(* into a unit index by BITMAP_UNIT_BITS.  A shift by 64 or more is an     *)
(* arithmetic overflow: it stops a kernel built with overflow checks and   *)
(* is taken modulo 64 otherwise; `build` says which kernel this is.        *)
(* The heap of part 1 takes the page layer at its contract; here it is     *)
(* taken as coded.                                                         *)
(***************************************************************************)
BYTE_BITS == 8
USIZE_BITS == 64
BYTES_PER_USIZE == USIZE_BITS \div 8
BITMAP_UNIT_BITS == USIZE_BITS * BYTE_BITS
BATCH_PAGES == 128
\* storage units the model keeps: enough for a region of MaxUnits * 512 pages
MaxUnits == 4
Units == 0..(MaxUnits - 1)
WordBits == 0..(USIZE_BITS - 1)

VFault(v, why) == IF v.panic # "none" THEN v ELSE [v EXCEPT !.panic = why]
VDead(v) == v.panic # "none"
\* a call returns: its result and, for alloc_pages, the address
Ret(v, res, ret) == [v EXCEPT !.res = res, !.ret = ret]

first_idx(bitoff) == bitoff \div BITMAP_UNIT_BITS
last_idx(bitmax) == (bitmax - 1) \div BITMAP_UNIT_BITS

\* the amount of a shift of a usize: [ok, n]
shift_amount(build, n) ==
    IF n < USIZE_BITS THEN [ok |-> TRUE, n |-> n]
    ELSE IF build = "debug" THEN [ok |-> FALSE, n |-> 0]
    ELSE [ok |-> TRUE, n |-> n % USIZE_BITS]

\* get_mask: [ok, bits]; ok is FALSE when a shift overflows and is checked
get_mask(build, is_first, is_last, off, max) ==
    LET l == shift_amount(build, off % BITMAP_UNIT_BITS)
        r == shift_amount(build,
                 (BITMAP_UNIT_BITS - (max % BITMAP_UNIT_BITS))
                     % BITMAP_UNIT_BITS)
    IN [ok |-> (is_first => l.ok) /\ (is_last => r.ok),
        bits |-> {b \in WordBits :
                     /\ is_first => b >= l.n
                     /\ is_last => b <= (USIZE_BITS - 1) - r.n}]

\* mask_bits: the bits of the mask that do not match is_set: [ok, bits]
mask_bits(build, data, idx, bitoff, bitmax, is_set) ==
    LET m == get_mask(build, idx = first_idx(bitoff), idx = last_idx(bitmax),
                      bitoff, bitmax)
    IN [ok |-> m.ok,
        bits |-> IF is_set THEN m.bits \ data ELSE m.bits \cap data]

SetMin(S) == CHOOSE x \in S : \A y \in S : x <= y
SetMax(S) == CHOOSE x \in S : \A y \in S : x >= y

\* a unit index the storage of the model does not keep
OutOfStorage(i) == i \notin Units

\* Bitmap::set from unit i on
RECURSIVE set_from(_, _, _, _)
set_from(v, i, bitoff, bitmax) ==
    IF VDead(v) \/ i > last_idx(bitmax) THEN v
    ELSE IF OutOfStorage(i) THEN VFault(v, "storage")
    ELSE LET m == get_mask(v.build, i = first_idx(bitoff),
                           i = last_idx(bitmax), bitoff, bitmax)
         IN IF ~m.ok THEN VFault(v, "overflow")
            ELSE set_from([v EXCEPT !.words[i] = @ \cup m.bits],
                          i + 1, bitoff, bitmax)

\* Bitmap::set: [v, err]
set(v, bitoff, bitmax) ==
    IF bitoff > bitmax \/ bitmax > v.bsize THEN [v |-> v, err |-> "InvalidArgs"]
    ELSE IF bitoff = bitmax THEN [v |-> v, err |-> "ok"]
    ELSE [v |-> set_from(v, first_idx(bitoff), bitoff, bitmax), err |-> "ok"]

RECURSIVE clear_from(_, _, _, _)
clear_from(v, i, bitoff, bitmax) ==
    IF VDead(v) \/ i > last_idx(bitmax) THEN v
    ELSE IF OutOfStorage(i) THEN VFault(v, "storage")
    ELSE LET m == get_mask(v.build, i = first_idx(bitoff),
                           i = last_idx(bitmax), bitoff, bitmax)
         IN IF ~m.ok THEN VFault(v, "overflow")
            ELSE clear_from([v EXCEPT !.words[i] = @ \ m.bits],
                            i + 1, bitoff, bitmax)

\* Bitmap::clear: [v, err]
clear(v, bitoff, bitmax) ==
    IF bitoff > bitmax \/ bitmax > v.bsize THEN [v |-> v, err |-> "InvalidArgs"]
    ELSE IF bitoff = bitmax THEN [v |-> v, err |-> "ok"]
    ELSE [v |-> clear_from(v, first_idx(bitoff), bitoff, bitmax),
          err |-> "ok"]

\* Bitmap::scan over the units i .. last_idx(bitmax) - 1:
\* [all, out, ok]; all: every bit looked at matches is_set
RECURSIVE scan_from(_, _, _, _, _)
scan_from(v, i, bitoff, bitmax, is_set) ==
    IF i >= last_idx(bitmax) THEN [all |-> TRUE, out |-> 0, ok |-> TRUE]
    ELSE IF OutOfStorage(i) THEN [all |-> TRUE, out |-> 0, ok |-> FALSE]
    ELSE LET masked == mask_bits(v.build, v.words[i], i, bitoff, bitmax,
                                 is_set)
         IN IF ~masked.ok THEN [all |-> TRUE, out |-> 0, ok |-> FALSE]
            ELSE IF masked.bits # {}
            THEN [all |-> FALSE, ok |-> TRUE,
                  out |-> i * BITMAP_UNIT_BITS + SetMin(masked.bits)]
            ELSE scan_from(v, i + 1, bitoff, bitmax, is_set)

scan(v, bitoff, bitmax0, is_set) ==
    LET bitmax == Min(bitmax0, v.bsize)
    IN IF bitoff >= bitmax THEN [all |-> TRUE, out |-> 0, ok |-> TRUE]
       ELSE scan_from(v, first_idx(bitoff), bitoff, bitmax, is_set)

\* Bitmap::reverse_scan from unit i down to first_idx(bitoff)
RECURSIVE reverse_scan_from(_, _, _, _, _)
reverse_scan_from(v, i, bitoff, bitmax, is_set) ==
    IF OutOfStorage(i) THEN [all |-> TRUE, out |-> 0, ok |-> FALSE]
    ELSE LET masked == mask_bits(v.build, v.words[i], i, bitoff, bitmax,
                                 is_set)
         IN IF ~masked.ok THEN [all |-> TRUE, out |-> 0, ok |-> FALSE]
            ELSE IF masked.bits # {}
            THEN [all |-> FALSE, ok |-> TRUE,
                  out |-> (i + 1) * BITMAP_UNIT_BITS
                          - (((USIZE_BITS - 1) - SetMax(masked.bits)) + 1)]
            ELSE IF i = first_idx(bitoff)
            THEN [all |-> TRUE, out |-> 0, ok |-> TRUE]
            ELSE reverse_scan_from(v, i - 1, bitoff, bitmax, is_set)

reverse_scan(v, bitoff, bitmax0, is_set) ==
    LET bitmax == Min(bitmax0, v.bsize)
    IN IF bitoff >= bitmax THEN [all |-> TRUE, out |-> 0, ok |-> TRUE]
       ELSE reverse_scan_from(v, last_idx(bitmax), bitoff, bitmax, is_set)

\* rounds of the loop of Bitmap::find the model follows
MaxFind == 70

\* Bitmap::find: [err, start]; err is "ok", an ErrNO, "overflow" or "hang"
RECURSIVE find_loop(_, _, _, _, _, _)
find_loop(v, is_set, bitoff, bitmax, run_len, fuel) ==
    IF fuel = 0 THEN [err |-> "hang", start |-> 0]
    ELSE
    LET s1 == scan(v, bitoff, bitmax, ~is_set)
    IN IF ~s1.ok THEN [err |-> "overflow", start |-> 0]
       ELSE IF s1.all THEN [err |-> "NoResources", start |-> 0]
       ELSE IF bitmax < s1.out /\ v.build = "debug"
       THEN [err |-> "overflow", start |-> 0]
       ELSE IF bitmax >= s1.out /\ bitmax - s1.out < run_len
       THEN [err |-> "NoResources", start |-> 0]
       ELSE LET s2 == scan(v, s1.out, s1.out + run_len, is_set)
            IN IF ~s2.ok THEN [err |-> "overflow", start |-> 0]
               ELSE IF s2.all THEN [err |-> "ok", start |-> s1.out]
               ELSE find_loop(v, is_set, s2.out, bitmax, run_len, fuel - 1)

find(v, is_set, bitoff, bitmax, run_len) ==
    IF bitmax <= bitoff THEN [err |-> "InvalidArgs", start |-> 0]
    ELSE find_loop(v, is_set, bitoff, bitmax, run_len, MaxFind)

(***************************************************************************)
(* The collaborators of VirtualAlloc.  The page-table mapper is not part   *)
(* of the sources at hand and is modelled from its interface: `mapped` is  *)
(* the set of mapped virtual page numbers.  Of the PMM the model keeps the *)
(* length of the free list.                                                *)
(***************************************************************************)
PagesAt(va, n) == {(va \div PAGE_SIZE) + i : i \in 0..(n - 1)}

\* map(vaddr, paddrs, count, flags, ExistingEntryAction::Error): [v, err]
pt_map(v, va, count) ==
    IF PagesAt(va, count) \cap v.mapped # {}
    THEN [v |-> v, err |-> "AlreadyExists"]
    ELSE [v |-> [v EXCEPT !.mapped = @ \cup PagesAt(va, count)],
          err |-> "ok"]

\* query(vaddr) finds a translation
pt_query(v, va) == (va \div PAGE_SIZE) \in v.mapped

\* unmap(vaddr, count, _): the number of pages unmapped is count
pt_unmap(v, va, count) == [v EXCEPT !.mapped = @ \ PagesAt(va, count)]

\* PmmNode::alloc_pages: [v, err].  A single page comes from alloc_page,
\* which reads the page popped off the free list before anyone has looked
\* whether the list was empty: with an empty list the kernel either traps
\* on the null page or goes on to return NoMem.
pmm_alloc_pages(v, count) ==
    IF count = 0 THEN [v |-> v, err |-> "ok"]
    ELSE IF count = 1 /\ v.pmm = 0
    THEN IF v.nullgo THEN [v |-> v, err |-> "NoMem"]
         ELSE [v |-> VFault(v, "fault"), err |-> "panic"]
    ELSE IF count > v.pmm THEN [v |-> [v EXCEPT !.pmm = 0], err |-> "NoMem"]
    ELSE [v |-> [v EXCEPT !.pmm = @ - count], err |-> "ok"]

\* the mapping loop of alloc_map_pages, BATCH_PAGES pages at a time
RECURSIVE map_batches(_, _, _, _)
map_batches(v, va, num_pages, mapped_count) ==
    IF mapped_count >= num_pages THEN [v |-> v, err |-> "ok"]
    ELSE LET map_pages == Min(BATCH_PAGES, num_pages - mapped_count)
             after(m) ==
                 IF m.err # "ok" THEN m
                 ELSE map_batches(m.v, va, num_pages,
                                  mapped_count + map_pages)
         IN after(pt_map(v, va + mapped_count * PAGE_SIZE, map_pages))

\* VirtualAlloc::alloc_map_pages: [v, err]
alloc_map_pages(v, va, num_pages) ==
    IF num_pages = 0 THEN [v |-> VFault(v, "assert"), err |-> "panic"]
    ELSE IF Pow2(v.align_log2 - PAGE_SHIFT) <= 1
    THEN [v |-> VFault(v, "assert"), err |-> "panic"]
    ELSE IF Pow2(v.align_log2 - PAGE_SHIFT) <= num_pages
    THEN [v |-> VFault(v, "todo"), err |-> "panic"]
    ELSE LET mapit(p) ==
                 IF p.err # "ok" THEN p
                 ELSE map_batches(p.v, va, num_pages, 0)
         IN mapit(pmm_alloc_pages(v, num_pages))

bitmap_pages(v) == (v.storage_num * BYTES_PER_USIZE) \div PAGE_SIZE

\* the top of the address space: a base with `top` set is the address
\* 2^64 - TOP_SPAN + off, and TOP_SPAN is a multiple of every alignment
\* the model asks for
TOP_SPAN == 2097152

\* VirtualAlloc::init, from `self.bitmap.storage_init` on
init_bitmap(v, a, bitmap_pgs) ==
    LET v1 == [v EXCEPT !.storage_num = (bitmap_pgs * PAGE_SIZE)
                                            \div BYTES_PER_USIZE,
                        !.words = [i \in Units |-> v.junk],
                        !.alloc_base = a.base,
                        !.alloc_top = a.top,
                        !.bsize = a.size \div PAGE_SIZE]
        done(s) ==
            IF VDead(s.v) THEN Ret(s.v, "panic", 0)
            ELSE IF s.err # "ok" THEN Ret(s.v, s.err, 0)
            ELSE Ret([s.v EXCEPT !.next_search_start = bitmap_pgs,
                                 !.alloc_guard = a.guard], "ok", 0)
    IN done(set(v1, 0, bitmap_pgs))

\* VirtualAlloc::init(base, size, alloc_guard, align_log2)
VirtualAlloc_init(v, a) ==
    IF v.alloc_base # 0 \/ v.alloc_top THEN Ret(v, "BadState", 0)
    ELSE IF a.align < PAGE_SHIFT THEN Ret(v, "InvalidArgs", 0)
    ELSE
    LET v1 == [v EXCEPT !.align_log2 = a.align]
        vaddr_align == Pow2(a.align)
        total_pages == a.size \div PAGE_SIZE
        bits_per_page == PAGE_SIZE * BYTE_BITS
        bitmap_pgs == ROUNDUP(total_pages, bits_per_page) \div bits_per_page
        mapped_bitmap(m) ==
            IF VDead(m.v) THEN Ret(m.v, "panic", 0)
            ELSE IF m.err # "ok" THEN Ret(m.v, m.err, 0)
            ELSE init_bitmap(m.v, a, bitmap_pgs)
    IN IF a.size = 0 \/ a.size % vaddr_align # 0 \/ a.base % vaddr_align # 0
       THEN Ret(v1, "InvalidArgs", 0)
       ELSE IF a.top /\ a.base + a.size >= TOP_SPAN
       THEN IF v.build = "debug" THEN Ret(VFault(v1, "overflow"), "panic", 0)
            ELSE Ret(v1, "InvalidArgs", 0)
       ELSE IF bitmap_pgs + a.guard * 2 >= total_pages
       THEN Ret(v1, "InvalidArgs", 0)
       ELSE mapped_bitmap(alloc_map_pages(v1, a.base, bitmap_pgs))

\* VirtualAlloc::bitmap_alloc_range: [v, err, start]
bitmap_alloc_range(v, num_pages, start, end) ==
    IF end < start \/ num_pages = 0
    THEN [v |-> VFault(v, "assert"), err |-> "panic", start |-> 0]
    ELSE IF num_pages >= Pow2(v.align_log2 - PAGE_SHIFT)
            /\ Pow2(v.align_log2 - PAGE_SHIFT) > 1
    THEN [v |-> VFault(v, "todo"), err |-> "panic", start |-> 0]
    ELSE
    LET found(f) ==
            IF f.err \in {"overflow", "hang"}
            THEN [v |-> VFault(v, f.err), err |-> "panic", start |-> 0]
            ELSE IF f.err # "ok" THEN [v |-> v, err |-> f.err, start |-> 0]
            ELSE LET alloc_start == f.start + v.alloc_guard
                     marked(s) ==
                         [v |-> s.v, start |-> alloc_start,
                          err |-> IF VDead(s.v) THEN "panic" ELSE s.err]
                 IN marked(set([v EXCEPT !.next_search_start =
                                             alloc_start + num_pages],
                               alloc_start, alloc_start + num_pages))
    IN found(find(v, FALSE, start, end, num_pages + v.alloc_guard * 2))

\* VirtualAlloc::bitmap_alloc: a second search from just past the bitmap
bitmap_alloc(v, num_pages) ==
    LET retry(r) ==
            IF r.err = "ok" \/ VDead(r.v) THEN r
            ELSE bitmap_alloc_range(r.v, num_pages, bitmap_pages(r.v),
                                    r.v.bsize)
    IN retry(bitmap_alloc_range(v, num_pages, v.next_search_start, v.bsize))

\* VirtualAlloc::alloc_pages(pages)
alloc_pages(v, pages) ==
    IF v.alloc_base = 0 /\ ~v.alloc_top THEN Ret(v, "BadState", 0)
    ELSE IF pages = 0 THEN Ret(v, "InvalidArgs", 0)
    ELSE
    LET got(b) ==
            IF b.err # "ok" THEN Ret(b.v, b.err, 0)
            ELSE LET vstart == b.v.alloc_base + b.start * PAGE_SIZE
                     backed(m) ==
                         IF m.err # "ok" THEN Ret(m.v, m.err, 0)
                         ELSE Ret(m.v, "ok", vstart)
                 IN backed(alloc_map_pages(b.v, vstart, pages))
    IN got(bitmap_alloc(v, pages))

\* the start of a range below alloc_base, after the subtraction wrapped
WRAPPED_START == 1073741824

\* the backward adjustment of next_search_start in bitmap_free
search_back(v) ==
    IF v.next_search_start < v.alloc_guard THEN v
    ELSE LET moved(r) ==
                 IF ~r.ok THEN VFault(v, "overflow")
                 ELSE IF r.all
                 THEN [v EXCEPT !.next_search_start = @ - v.alloc_guard]
                 ELSE [v EXCEPT !.next_search_start = r.out + 1]
         IN moved(reverse_scan(v, v.next_search_start - v.alloc_guard,
                               v.next_search_start, FALSE))

\* VirtualAlloc::bitmap_free: [v, err]
bitmap_free(v, start, num_pages) ==
    IF start < bitmap_pages(v)
    THEN [v |-> VFault(v, "assert"), err |-> "panic"]
    ELSE IF ~scan(v, start, start + num_pages, TRUE).ok
    THEN [v |-> VFault(v, "overflow"), err |-> "panic"]
    ELSE IF ~scan(v, start, start + num_pages, TRUE).all
    THEN [v |-> VFault(v, "assert"), err |-> "panic"]
    ELSE
    LET cleared(c) ==
            IF VDead(c.v) THEN [v |-> c.v, err |-> "panic"]
            ELSE IF c.err # "ok" THEN c
            ELSE IF start < c.v.next_search_start
            THEN [v |-> search_back([c.v EXCEPT
                                        !.next_search_start = start]),
                  err |-> "ok"]
            ELSE c
    IN cleared(clear(v, start, start + num_pages))

\* VirtualAlloc::unmap_free_pages: pmm_free is todo!()
unmap_free_pages(v, va, pages) ==
    IF \E i \in 0..(pages - 1) : ~pt_query(v, va + i * PAGE_SIZE)
    THEN Ret(v, "NotFound", 0)
    ELSE Ret(VFault(pt_unmap(v, va, pages), "todo"), "panic", 0)

\* VirtualAlloc::free_pages(vaddr, pages)
free_pages(v, vaddr, pages) ==
    IF (v.alloc_base = 0 /\ ~v.alloc_top) \/ pages = 0
       \/ ~IS_PAGE_ALIGNED(vaddr)
    THEN Ret(VFault(v, "assert"), "panic", 0)
    ELSE IF vaddr < v.alloc_base /\ v.build = "debug"
    THEN Ret(VFault(v, "overflow"), "panic", 0)
    ELSE
    LET start == IF vaddr < v.alloc_base THEN WRAPPED_START
                 ELSE (vaddr - v.alloc_base) \div PAGE_SIZE
        released(b) ==
            IF VDead(b.v) THEN Ret(b.v, "panic", 0)
            ELSE IF b.err # "ok" THEN Ret(b.v, b.err, 0)
            ELSE unmap_free_pages(b.v, vaddr, pages)
    IN released(bitmap_free(v, start, pages))

(***************************************************************************)
(* A client of one VirtualAlloc: init, alloc_pages and free_pages in any   *)
(* order, with arguments that reach every early return of init, both       *)
(* searches of bitmap_alloc and the checks of free_pages.                  *)
(***************************************************************************)
MaxVaOps == 5
MiB == 1048576
VA_BASE == 268435456
Region(top, base, sz, guard, align) ==
    [top |-> top, base |-> base, size |-> sz, guard |-> guard,
     align |-> align]
\* scenario B: init(base=0x10000000, size=1 MiB, guard=1, align_log2=12)
ScenarioB == Region(FALSE, VA_BASE, MiB, 1, PAGE_SHIFT)
GoodInits == {ScenarioB,
              Region(FALSE, VA_BASE, MiB, 1, 13),
              Region(FALSE, VA_BASE, 4 * MiB, 1, 20),
              Region(FALSE, VA_BASE, 4 * MiB, 2, 20)}
\* arguments init has to refuse, by the reason
BadAlign == Region(FALSE, VA_BASE, MiB, 1, PAGE_SHIFT - 1)
BadSizeZero == Region(FALSE, VA_BASE, 0, 1, 13)
BadSize == Region(FALSE, VA_BASE, MiB + PAGE_SIZE, 1, 13)
BadBase == Region(FALSE, VA_BASE + PAGE_SIZE, MiB, 1, 13)
BadWrap == Region(TRUE, TOP_SPAN - MiB, MiB, 1, 20)
BadRoom == Region(FALSE, VA_BASE, 2 * PAGE_SIZE, 1, 13)
BadInits == {BadAlign, BadSizeZero, BadSize, BadBase, BadWrap, BadRoom}
VaInits == GoodInits \cup BadInits
VaPages == {0, 1, 4, 28, 30}
PmmPages == {33, 300}
JunkWords == {{}, {3}}

InitVA ==
    /\ ptr_hi = 0
    /\ fresh = 0
    /\ mem = <<>>
    /\ size = 0
    /\ remaining = 0
    /\ cached_os_alloc = NULL
    /\ free_list_bits = [i \in 0..(BUCKET_WORDS - 1) |-> {}]
    /\ os_areas = {}
    /\ next_search_start = BITMAP_PAGES
    /\ panicked = "none"
    /\ live = {}
    /\ ops = 0
    /\ last = Obs("new", NULL, 0, TRUE, TRUE)
    /\ scen = NoScen
    /\ rep = NoRep
    /\ q = NoQuery
    /\ thr = NoThr
    /\ growth = NoGrow
    /\ vcl = NoClient
    /\ pmm_node = NoPmm
    /\ mutex = NoMutex
    /\ valloc \in {[NoVa EXCEPT !.build = b, !.nullgo = g, !.junk = j,
                                !.pmm = p] :
                      b \in {"debug", "release"}, g \in BOOLEAN,
                      j \in JunkWords, p \in PmmPages}

Initialised(v) == v.alloc_base # 0 \/ v.alloc_top
VaRunning == valloc.panic = "none" /\ vcl.ops < MaxVaOps

\* the bit of page p, where set and clear keep it
BitAt(v, p) == (p % USIZE_BITS) \in v.words[first_idx(p)]

\* the page index of an address of the range
PageOf(v, vaddr) == (vaddr - v.alloc_base) \div PAGE_SIZE

\* some page of [vaddr, vaddr + n pages) is not allocated in the bitmap
NotAllocated(v, vaddr, n) ==
    \/ vaddr < v.alloc_base
    \/ PageOf(v, vaddr) < bitmap_pages(v)
    \/ \E p \in PageOf(v, vaddr)..(PageOf(v, vaddr) + n - 1) :
           p >= v.bsize \/ ~BitAt(v, p)

VaInit(a) ==
    /\ VaRunning
    /\ valloc' = VirtualAlloc_init(valloc, a)
    /\ vcl' = [vcl EXCEPT !.op = "init", !.ops = @ + 1, !.bad = a \in BadInits,
                          !.scen = IF vcl.op = "new" /\ a = ScenarioB
                                   THEN 1 ELSE 0]
    /\ UNCHANGED <<heapstate, q, growth, thr, pmm_node, mutex>>

VaAlloc(n) ==
    /\ VaRunning
    /\ LET done(r) ==
               /\ valloc' = r
               /\ vcl' = [vcl EXCEPT
                             !.op = "alloc", !.ops = @ + 1, !.bad = FALSE,
                             !.live = IF r.res = "ok"
                                      THEN @ \cup {[va |-> r.ret, n |-> n]}
                                      ELSE @,
                             !.scen = IF vcl.scen = 1 /\ n = 4
                                      THEN 2 ELSE 0]
       IN done(alloc_pages(valloc, n))
    /\ UNCHANGED <<heapstate, q, growth, thr, pmm_node, mutex>>

\* the ranges the client passes to free_pages: its allocations, an
\* allocation with the page after it, the bitmap's own page, a range no
\* alloc_pages returned and a page below the region
FreeRanges(v, held) ==
    {<<a.va, a.n>> : a \in held}
        \cup {<<a.va, a.n + 1>> : a \in held}
        \cup {<<v.alloc_base, 1>>, <<v.alloc_base + 700 * PAGE_SIZE, 4>>,
              <<v.alloc_base + 70 * PAGE_SIZE, 4>>,
              <<v.alloc_base - PAGE_SIZE, 1>>}

VaFree(vaddr, n) ==
    /\ VaRunning
    /\ valloc' = free_pages(valloc, vaddr, n)
    /\ vcl' = [vcl EXCEPT !.op = "free", !.ops = @ + 1,
                          !.bad = ~Initialised(valloc)
                                  \/ NotAllocated(valloc, vaddr, n),
                          !.live = @ \ {[va |-> vaddr, n |-> n]},
                          !.scen = 0]
    /\ UNCHANGED <<heapstate, q, growth, thr, pmm_node, mutex>>

NextVA ==
    \/ \E a \in VaInits : VaInit(a)
    \/ \E n \in VaPages : VaAlloc(n)
    \/ \E r \in FreeRanges(valloc, vcl.live) : VaFree(r[1], r[2])

SpecVA == InitVA /\ [][NextVA]_vars

\* C16: in an initialised VirtualAlloc every live allocation has alloc_guard
\* unset bits right before and right after its run, and neither another
\* live allocation nor a page of the bitmap lies within that distance.
C16_GuardBits ==
    (valloc.panic = "none" /\ Initialised(valloc)) =>
        \A a \in vcl.live :
            LET s == PageOf(valloc, a.va)
                g == valloc.alloc_guard
            IN /\ s >= bitmap_pages(valloc) + g
               /\ \A p \in (s - g)..(s - 1) : ~BitAt(valloc, p)
               /\ \A p \in (s + a.n)..(s + a.n + g - 1) :
                      p < valloc.bsize => ~BitAt(valloc, p)
               /\ \A b \in vcl.live \ {a} :
                      \/ PageOf(valloc, b.va) + b.n + g <= s
                      \/ s + a.n + g <= PageOf(valloc, b.va)

\* the run of n set bits at s with an unset bit on either side
GuardedRun(v, s, n) ==
    /\ \A p \in s..(s + n - 1) : BitAt(v, p)
    /\ s >= 1 /\ ~BitAt(v, s - 1)
    /\ s + n < v.bsize /\ ~BitAt(v, s + n)

\* C17: scenario B: init(base=0x10000000, size=1 MiB, guard=1, align_log2=12)
\* returns Ok, and the alloc_pages(4) that follows returns the address of a
\* run of 4 set bits with an unset bit before and after it.
C17_ScenarioB ==
    /\ vcl.scen = 1 => valloc.res = "ok"
    /\ vcl.scen = 2 =>
           /\ valloc.res = "ok"
           /\ GuardedRun(valloc, PageOf(valloc, valloc.ret), 4)

\* free_pages right after the alloc_pages that returned r.ret gives back
\* what the call took: Ok, the bitmap and the PMM's free pages as in v
GivenBack(v, r, n) ==
    LET same(f) == f.res = "ok" /\ f.words = v.words /\ f.pmm = v.pmm
    IN same(free_pages(r, r.ret, n))

\* C18: whenever alloc_pages(n) succeeds with address v, free_pages(v, n)
\* right after it returns Ok and leaves the bitmap and the number of free
\* pages of the PMM as they were before the alloc_pages.
C18_RoundTrip ==
    (valloc.panic = "none" /\ Initialised(valloc)) =>
        \A n \in VaPages \ {0} :
            LET back(r) == r.res = "ok" => GivenBack(valloc, r, n)
            IN back(alloc_pages(valloc, n))

\* the call was refused and touched neither the page table nor the PMM
Refused(v, f) == f.res # "ok" /\ f.mapped = v.mapped /\ f.pmm = v.pmm

\* C19: free_pages on a range that is not entirely allocated in the bitmap
\* (never allocated, freed before, or reaching into the bitmap's own pages)
\* is refused before the page table is changed and before any page goes
\* back to the PMM.
C19_BadFreeRejected ==
    (valloc.panic = "none" /\ Initialised(valloc)) =>
        \A r \in FreeRanges(valloc, vcl.live) :
            NotAllocated(valloc, r[1], r[2]) =>
                Refused(valloc, free_pages(valloc, r[1], r[2]))

\* no bit of the bitmap is set
NoBits(v) == v.bsize = 0 \/ \A i \in DOMAIN v.words : v.words[i] = {}

\* the allocator is as VirtualAlloc::new left it, for its callers
Uninitialised(v) ==
    /\ v.alloc_base = 0 /\ ~v.alloc_top
    /\ NoBits(v)
    /\ alloc_pages(v, 1).res = "BadState"

\* C20: init on a new VirtualAlloc returns InvalidArgs for align_log2 below
\* PAGE_SHIFT, size 0, a base or size that is no multiple of 2^align_log2,
\* base + size past the end of the address space, and
\* bitmap_pages + 2 * guard >= size / PAGE_SIZE; after an init that failed
\* alloc_base is 0, alloc_pages returns BadState and no bitmap bit is set.
C20_InitRejects ==
    (valloc.panic = "none" /\ ~Initialised(valloc)) =>
        /\ \A a \in BadInits :
               VirtualAlloc_init(valloc, a).res = "InvalidArgs"
        /\ \A a \in VaInits :
               LET failed(r) == r.res \notin {"ok", "panic"} =>
                                    Uninitialised(r)
               IN failed(VirtualAlloc_init(valloc, a))

(***************************************************************************)
(* Part 3: the physical memory manager (pmm.rs), the boot reservations     *)
(* (platform/riscv/boot_reserve.rs) and boot_reserve_wire (platform.rs).   *)
(* Addresses are byte addresses. A page descriptor (vm_page_t) is named by *)
(* the frame of its page, paddr / PAGE_SIZE, and a List<vm_page_t> is the  *)
(* sequence of the frames linked in it, head first: add_tail appends,      *)
(* pop_head takes the first, splice concatenates, and delete_from_list     *)
(* takes a frame out of the list it is linked in.                          *)
(***************************************************************************)
FREE == 0
ALLOC == 1
WIRED == 3
\* mem::size_of::<vm_page_t>(): queue_node 16, paddr 8, object 24, state 1,
\* loaned_state 1, padded to the alignment of 8
vm_page_sz == 56
MAX_RESERVES == 64

PFault(pm, why) == IF pm.panic # "none" THEN pm ELSE [pm EXCEPT !.panic = why]
PRet(pm, res, ret) == [pm EXCEPT !.res = res, !.ret = ret]
Frames(s) == {s[k] : k \in DOMAIN s}
Unlink(s, f) == SelectSeq(s, LAMBDA x : x # f)

intersects(offset1, len1, offset2, len2) ==
    IF len1 = 0 \/ len2 = 0 THEN FALSE
    ELSE IF offset1 <= offset2 THEN ~(offset1 + len1 <= offset2)
    ELSE ~(offset1 >= offset2 + len2)

\* RESERVE_RANGES is kept sorted by pa; a range that intersects one already
\* there stops the kernel
boot_reserve_add_range(pm, pa, len) ==
    LET res == pm.reserves
        end == pa + len - 1
        above == {k \in 1..Len(res) : res[k].pa > end}
        stop == IF above = {} THEN Len(res) + 1 ELSE SetMin(above)
    IN IF Len(res) = MAX_RESERVES - 1
       THEN PFault(pm, "too many boot reservations")
       ELSE IF \E k \in 1..Min(stop, Len(res)) :
                   intersects(res[k].pa, res[k].len, pa, len)
       THEN PFault(pm, "intersects existing range")
       ELSE PRet([pm EXCEPT !.reserves =
                      SubSeq(res, 1, stop - 1) \o <<[pa |-> pa, len |-> len]>>
                          \o SubSeq(res, stop, Len(res))],
                 "ok", <<>>)

\* a search that moves below the first range it meets and looks no further
search_once(res, range_pa, alloc_pa, alloc_len) ==
    LET hits == {k \in 1..Len(res) :
                    intersects(res[k].pa, res[k].len, alloc_pa, alloc_len)}
        lower(r) == IF r.pa - alloc_len < range_pa
                    THEN [res |-> "NoMem", pa |-> 0, len |-> 0]
                    ELSE [res |-> "ok", pa |-> r.pa - alloc_len,
                          len |-> alloc_len]
    IN IF hits = {}
       THEN [res |-> "ok", pa |-> alloc_pa, len |-> alloc_len]
       ELSE lower(res[SetMin(hits)])

\* the 'retry loop: below the first reserved range that the candidate
\* intersects, until it intersects none or leaves the arena; r.pa - alloc_len
\* is a subtraction of two usize
RECURSIVE search_retry(_, _, _, _)
search_retry(res, range_pa, alloc_pa, alloc_len) ==
    LET hits == {k \in 1..Len(res) :
                    intersects(res[k].pa, res[k].len, alloc_pa, alloc_len)}
        lower(r) == IF r.pa < alloc_len
                    THEN [res |-> "underflow", pa |-> 0, len |-> 0]
                    ELSE IF r.pa - alloc_len < range_pa
                    THEN [res |-> "NoMem", pa |-> 0, len |-> 0]
                    ELSE search_retry(res, range_pa, r.pa - alloc_len,
                                      alloc_len)
    IN IF hits = {}
       THEN [res |-> "ok", pa |-> alloc_pa, len |-> alloc_len]
       ELSE lower(res[SetMin(hits)])

\* upper_align: the candidate starts at the top of the arena
boot_reserve_range_search(res, range_pa, range_len, alloc_len) ==
    search_retry(res, range_pa, range_pa + range_len - alloc_len, alloc_len)

add_free_pages(pm, list, count) ==
    [pm EXCEPT !.count = @ + count, !.free = @ \o list]

\* PmmArena::init: err is the error it returns ("none" for Ok), page_array
\* the chunk of the arena that hosts its descriptors
PmmArena_init(pm, info) ==
    LET page_count == info.size \div PAGE_SIZE
        page_array_size == ROUNDUP(page_count * vm_page_sz, PAGE_SIZE)
        Fail(e) == [err |-> e, pm |-> pm, page_array |-> [start |-> 0, len |-> 0]]
        base_frame == info.base \div PAGE_SIZE
        placed(range) ==
            LET array_start_index ==
                    (ROUNDUP(range.pa, PAGE_SIZE) - info.base) \div PAGE_SIZE
                array_pages == page_array_size \div PAGE_SIZE
                array_end_index == array_start_index + array_pages
                list == [k \in 1..(page_count - array_pages) |->
                            base_frame + (IF k - 1 < array_start_index
                                          THEN k - 1
                                          ELSE k - 1 + array_pages)]
                descs == [f \in base_frame..(base_frame + page_count - 1) |->
                             IF /\ f - base_frame >= array_start_index
                                /\ f - base_frame < array_end_index
                             THEN WIRED ELSE FREE]
            IN IF range.res # "ok" THEN Fail(range.res)
               ELSE IF range.pa < info.base \/ range.len > page_array_size
               THEN Fail("OutOfRange")
               ELSE IF \/ array_start_index >= page_count
                       \/ array_end_index > page_count
               THEN Fail("BadRange")
               ELSE IF \E k \in 0..(page_count - 1) :
                           k * vm_page_sz >= page_array_size
               THEN Fail("NoMem")
               ELSE [err |-> "none",
                     pm |-> add_free_pages(
                                [pm EXCEPT !.page = descs @@ pm.page],
                                list, page_count),
                     page_array |-> [start |-> range.pa,
                                     len |-> page_array_size]]
    IN IF page_array_size >= info.size THEN Fail("LackBuf")
       ELSE placed(boot_reserve_range_search(pm.reserves, info.base,
                                             info.size, page_array_size))

\* a registry that appends every arena
arena_pos_last(arenas, base) == Len(arenas) + 1

\* the place of a new arena in the registry: before the first arena with a
\* higher base, or at the end
arena_pos(arenas, base) ==
    LET below == {k \in 1..Len(arenas) : base < arenas[k].base}
    IN IF below = {} THEN Len(arenas) + 1 ELSE SetMin(below)

\* PmmNode::add_arena: an error of PmmArena::init is printed and dropped
add_arena(pm, info) ==
    LET arenas == pm.arenas
        pos == arena_pos(arenas, info.base)
        registered(r) ==
            IF r.err # "none"
            THEN PRet([r.pm EXCEPT !.err = r.err], "ok", <<>>)
            ELSE PRet([r.pm EXCEPT
                          !.err = "none",
                          !.arena_cumulative_size = @ + info.size,
                          !.arenas =
                              SubSeq(arenas, 1, pos - 1)
                                  \o <<[base |-> info.base,
                                        size |-> info.size,
                                        page_array |-> r.page_array]>>
                                  \o SubSeq(arenas, pos, Len(arenas))],
                      "ok", <<>>)
    IN IF \/ info.base % PAGE_SIZE # 0
          \/ info.size % PAGE_SIZE # 0
          \/ info.size = 0
       THEN PRet([pm EXCEPT !.err = "none"], "BadAlign", <<>>)
       ELSE registered(PmmArena_init(pm, info))

\* ZX_ASSERT!(is_free()), then FREE -> ALLOC
alloc_page_helper_locked(pm, f) ==
    IF pm.page[f] # FREE THEN PFault(pm, "assert: page is not free")
    ELSE [pm EXCEPT !.page[f] = ALLOC]

\* the walk of alloc_range over the arenas from the k-th on: got is the
\* caller's list so far
RECURSIVE range_walk(_, _, _, _, _)
range_walk(pm, k, address, count, got) ==
    IF k > Len(pm.arenas) THEN [pm |-> pm, got |-> got]
    ELSE LET area == pm.arenas[k]
             f == address \div PAGE_SIZE
         IN IF /\ Len(got) < count
               /\ address >= area.base
               /\ address <= area.base + area.size - 1
               /\ pm.page[f] = FREE
            THEN range_walk(alloc_page_helper_locked(
                                [pm EXCEPT !.free = Unlink(@, f)], f),
                            k, address + PAGE_SIZE, count, Append(got, f))
            ELSE IF Len(got) = count THEN [pm |-> pm, got |-> got]
            ELSE range_walk(pm, k + 1, address, count, got)

\* PmmNode::alloc_range; the pages of a failed run are left to
\* free_list_locked, which is todo!()
PmmNode_alloc_range(pm, address, count) ==
    LET counted(w) ==
            [w.pm EXCEPT !.count = @ - Len(w.got),
                         !.taken = @ \cup Frames(w.got),
                         !.ret = w.got]
        finish(w) ==
            IF Len(w.got) # count
            THEN PFault([counted(w) EXCEPT !.res = "panic"],
                        "todo: free_list_locked")
            ELSE [counted(w) EXCEPT !.res = "ok"]
    IN IF count = 0 THEN PRet(pm, "ok", <<>>)
       ELSE finish(range_walk(pm, 1, (address \div PAGE_SIZE) * PAGE_SIZE,
                              count, <<>>))

\* PmmNode::alloc_page. pop_head of an empty list gives the null pointer,
\* which the function dereferences: go is what that does (a fault, a failed
\* assertion on what address 0 holds, or nothing that stops it)
PmmNode_alloc_page(pm, go) ==
    LET popped(f) ==
            LET helped(a) ==
                    IF a.panic # "none" THEN PRet(a, "panic", <<>>)
                    ELSE PRet([a EXCEPT !.count = @ - 1,
                                        !.taken = @ \cup {f}],
                              "page", <<f>>)
            IN helped(alloc_page_helper_locked(
                          [pm EXCEPT !.free = Tail(@)], f))
    IN IF pm.free # <<>> THEN popped(Head(pm.free))
       ELSE IF go = "fault"
       THEN PFault(PRet(pm, "panic", <<>>), "null page dereferenced")
       ELSE IF go = "assert"
       THEN PFault(PRet(pm, "panic", <<>>), "assert on the null page")
       ELSE IF pm.count = 0 /\ pm.build = "debug"
       THEN PFault(PRet(pm, "panic", <<>>), "overflow")
       ELSE PRet([pm EXCEPT !.count = @ - 1], "null", <<>>)

\* the loop of alloc_pages for two pages or more
RECURSIVE pop_pages(_, _, _)
pop_pages(pm, count, got) ==
    IF count = 0 THEN PRet(pm, "ok", got)
    ELSE IF pm.free = <<>> THEN PRet(pm, "NoMem", got)
    ELSE LET helped(a, f) ==
                 IF a.panic # "none" THEN PRet(a, "panic", got)
                 ELSE pop_pages([a EXCEPT !.count = @ - 1,
                                          !.taken = @ \cup {f}],
                                count - 1, Append(got, f))
         IN helped(alloc_page_helper_locked(
                       [pm EXCEPT !.free = Tail(@)], Head(pm.free)),
                   Head(pm.free))

PmmNode_alloc_pages(pm, count, go) ==
    LET single(a) ==
            IF a.panic # "none" THEN a
            ELSE IF a.ret = <<>> THEN PRet(a, "NoMem", <<>>)
            ELSE PRet(a, "ok", a.ret)
    IN IF count = 0 THEN PRet(pm, "ok", <<>>)
       ELSE IF count = 1 THEN single(PmmNode_alloc_page(pm, go))
       ELSE pop_pages(pm, count, <<>>)

\* the loop of boot_reserve_wire from the k-th reservation on
RECURSIVE wire_from(_, _)
wire_from(pm, k) ==
    IF k > Len(pm.reserves) THEN pm
    ELSE LET spliced(a) ==
                 IF a.res # "ok" THEN a
                 ELSE wire_from([a EXCEPT !.reserved = @ \o a.ret,
                                          !.taken = @ \ Frames(a.ret)],
                                k + 1)
         IN spliced(PmmNode_alloc_range(
                        pm, pm.reserves[k].pa,
                        ROUNDUP(pm.reserves[k].len, PAGE_SIZE)
                            \div PAGE_SIZE))

\* boot_reserve_wire: the pages of every reservation become WIRED, and the
\* list of them is spliced into RESERVED_PAGE_LIST, a List that was built
\* by List::new and never initialised: splice asserts is_initialized()
boot_reserve_wire(pm) ==
    LET marked(w) ==
            IF w.res # "ok" THEN w
            ELSE PFault([w EXCEPT
                            !.phase = "wired",
                            !.page = [f \in DOMAIN w.page |->
                                         IF f \in Frames(w.reserved)
                                         THEN WIRED ELSE w.page[f]]],
                        "assert: RESERVED_PAGE_LIST is not initialised")
    IN marked(wire_from(PRet(pm, "ok", <<>>), 1))

\* the boot of the PMM and its clients, one call at a time
MaxPmmOps == 6
MaxReserves == 2
Arena(b, pages) == [base |-> b * MiB, size |-> pages * PAGE_SIZE]
\* arenas of 2, 4 and 80 pages, one too small for its descriptors, and two
\* that are not page aligned or empty
GoodArenas == {Arena(1, 2), Arena(2, 4), Arena(4, 80)}
ArenaInputs ==
    GoodArenas \cup {Arena(3, 1), [base |-> MiB + 2048, size |-> 2 * PAGE_SIZE],
                     [base |-> 5 * MiB, size |-> 0]}
\* the kernel image at the bottom of the 4-page arena
KernelImage == [pa |-> 2 * MiB, len |-> PAGE_SIZE + 2048]
\* the top page of that arena and the upper half of it, the whole 2-page
\* arena, a range that starts in the middle of a page, and one outside
\* every arena
ReserveInputs ==
    {KernelImage,
     [pa |-> 2 * MiB + 3 * PAGE_SIZE, len |-> PAGE_SIZE],
     [pa |-> 2 * MiB + 3 * PAGE_SIZE + 2048, len |-> 2048],
     [pa |-> MiB, len |-> 2 * PAGE_SIZE],
     [pa |-> 2 * MiB + PAGE_SIZE + 2048, len |-> PAGE_SIZE],
     [pa |-> 6 * MiB, len |-> PAGE_SIZE]}
PageCounts == {0, 1, 2, 3}
NullOutcomes == {"fault", "assert", "through"}
RangeStarts == {MiB, 2 * MiB, 2 * MiB + 2 * PAGE_SIZE + 2048,
                4 * MiB + 77 * PAGE_SIZE, 6 * MiB}

InitPmm ==
    /\ ptr_hi = 0
    /\ fresh = 0
    /\ mem = <<>>
    /\ size = 0
    /\ remaining = 0
    /\ cached_os_alloc = NULL
    /\ free_list_bits = [i \in 0..(BUCKET_WORDS - 1) |-> {}]
    /\ os_areas = {}
    /\ next_search_start = BITMAP_PAGES
    /\ panicked = "none"
    /\ live = {}
    /\ ops = 0
    /\ last = Obs("new", NULL, 0, TRUE, TRUE)
    /\ scen = NoScen
    /\ rep = NoRep
    /\ q = NoQuery
    /\ thr = NoThr
    /\ growth = NoGrow
    /\ vcl = NoClient
    /\ valloc = NoVa
    /\ mutex = NoMutex
    /\ pmm_node \in {[NoPmm EXCEPT !.build = b] : b \in {"debug", "release"}}

PmmRunning == pmm_node.panic = "none" /\ pmm_node.ops < MaxPmmOps
Snapshot(pm) == [count |-> pm.count, free |-> pm.free, arenas |-> pm.arenas,
                 page |-> pm.page]
PmmStep(next, name, x, y) ==
    /\ pmm_node' = [next EXCEPT !.ops = pmm_node.ops + 1,
                                !.op = [name |-> name, x |-> x, y |-> y],
                                !.was = Snapshot(pmm_node)]
    /\ UNCHANGED <<heapstate, q, growth, thr, valloc, vcl, mutex>>
Overlaps(pm, info) ==
    \E k \in 1..Len(pm.arenas) :
        intersects(pm.arenas[k].base, pm.arenas[k].size, info.base, info.size)

\* platform_early_init reserves the kernel image first, then what the
\* device tree reserves
PmmReserve(r) ==
    /\ PmmRunning
    /\ pmm_node.phase = "reserve"
    /\ Len(pmm_node.reserves) < MaxReserves
    /\ pmm_node.reserves = <<>> => r = KernelImage
    /\ PmmStep(boot_reserve_add_range(pmm_node, r.pa, r.len), "reserve",
               r.pa, r.len)

\* pmm_add_arena for a bank of RAM that overlaps no registered arena
PmmAddArena(info) ==
    /\ PmmRunning
    /\ pmm_node.phase \in {"reserve", "arenas"}
    /\ pmm_node.reserves # <<>>
    /\ ~Overlaps(pmm_node, info)
    /\ PmmStep([add_arena(pmm_node, info) EXCEPT !.phase = "arenas"],
               "add_arena", info.base, info.size)

PmmAllocPages(n, go) ==
    /\ PmmRunning
    /\ pmm_node.phase = "arenas"
    /\ PmmStep(PmmNode_alloc_pages(pmm_node, n, go), "alloc_pages", n, 0)

PmmAllocRange(address, n) ==
    /\ PmmRunning
    /\ pmm_node.phase = "arenas"
    /\ PmmStep(PmmNode_alloc_range(pmm_node, address, n), "alloc_range",
               address, n)

PmmWire ==
    /\ PmmRunning
    /\ pmm_node.phase = "arenas"
    /\ PmmStep(boot_reserve_wire(pmm_node), "wire", 0, 0)

NextPmm ==
    \/ \E r \in ReserveInputs : PmmReserve(r)
    \/ \E info \in ArenaInputs : PmmAddArena(info)
    \/ \E n \in PageCounts, go \in NullOutcomes : PmmAllocPages(n, go)
    \/ \E address \in RangeStarts, n \in PageCounts : PmmAllocRange(address, n)
    \/ PmmWire
SpecPmm == InitPmm /\ [][NextPmm]_vars

\* what the claims about the PMM observe
ArenaAdded(pm) ==
    pm.op.name = "add_arena" /\ pm.res = "ok" /\ pm.err = "none"
ArenaAt(pm, b) == pm.arenas[CHOOSE k \in 1..Len(pm.arenas) :
                                pm.arenas[k].base = b]
ArenaFrames(a) ==
    (a.base \div PAGE_SIZE)..((a.base + a.size - 1) \div PAGE_SIZE)
\* the frames with a byte in [pa, pa + len)
FramesOf(pa, len) ==
    IF len = 0 THEN {} ELSE (pa \div PAGE_SIZE)..((pa + len - 1) \div PAGE_SIZE)
HostFrames(a) == FramesOf(a.page_array.start, a.page_array.len)
ReservedFrames(pm) ==
    UNION {FramesOf(pm.reserves[k].pa, pm.reserves[k].len) :
               k \in 1..Len(pm.reserves)}

\* C21: after an add_arena that registered an arena of page_count pages,
\* FreePageList.count has grown by page_count, less the pages that host the
\* arena's descriptor array, less the pages of the arena inside a boot
\* reservation made before.
C21_FreeCount ==
    ArenaAdded(pmm_node) =>
        LET a == ArenaAt(pmm_node, pmm_node.op.x)
            page_count == a.size \div PAGE_SIZE
        IN pmm_node.count - pmm_node.was.count =
               page_count - Cardinality(HostFrames(a))
                   - Cardinality((ArenaFrames(a) \cap ReservedFrames(pmm_node))
                                     \ HostFrames(a))

\* C22: between two calls of the PMM (the free-list lock is not held, and
\* no call has stopped the kernel inside its critical section),
\* FreePageList.count is the number of pages linked in FreePageList.list.
C22_CountIsLength ==
    pmm_node.panic = "none" => pmm_node.count = Len(pmm_node.free)

\* the lists a page descriptor can be linked in besides the free list: a
\* caller's list, and the list of boot_reserve_wire
Elsewhere(pm) == pm.taken \cup Frames(pm.reserved)
StateMatchesList(pm) ==
    /\ \A f \in DOMAIN pm.page : pm.page[f] = FREE <=> f \in Frames(pm.free)
    /\ Cardinality(Frames(pm.free)) = Len(pm.free)
    /\ Frames(pm.free) \cap Elsewhere(pm) = {}
ArenaSetUp(pm, a) ==
    /\ \A f \in ArenaFrames(a) \ HostFrames(a) :
           pm.page[f] = FREE /\ f \in Frames(pm.free)
    /\ \A f \in HostFrames(a) :
           /\ pm.page[f] = WIRED
           /\ f \notin Frames(pm.free) \cup Elsewhere(pm)

\* C23: in every state of the PMM a page descriptor is FREE exactly when it
\* is linked in the free list, once, and in no other list; right after an
\* add_arena that registered an arena, the pages that host its descriptor
\* array are WIRED and in no list and all its other pages are FREE and in
\* the free list; and ZX_ASSERT!(is_free()) of alloc_page_helper_locked
\* never fails.
C23_StateMatchesList ==
    /\ StateMatchesList(pmm_node)
    /\ ArenaAdded(pmm_node) =>
           ArenaSetUp(pmm_node, ArenaAt(pmm_node, pmm_node.op.x))
    /\ pmm_node.panic # "assert: page is not free"

\* an add_arena whose PmmArena::init returned an error
ArenaRefused(pm) == pm.op.name = "add_arena" /\ pm.err # "none"
PmmUntouched(pm) ==
    /\ pm.arenas = pm.was.arenas
    /\ pm.free = pm.was.free
    /\ pm.count = pm.was.count
    /\ pm.page = pm.was.page

\* C24: when the initialisation of the arena fails, add_arena returns the
\* error to its caller, LackBuf for an arena no larger than its descriptor
\* array and OutOfRange or BadRange when the array cannot be placed, and
\* leaves the registry and the free list as they were.
C24_ErrorReturned ==
    ArenaRefused(pmm_node) =>
        /\ pmm_node.res = pmm_node.err
        /\ pmm_node.err \in {"LackBuf", "OutOfRange", "BadRange"}
        /\ PmmUntouched(pmm_node)

\* an alloc_pages(n) called with fewer than n pages in the free list
Starved(pm) ==
    /\ pm.op.name = "alloc_pages"
    /\ pm.op.x >= 1
    /\ Len(pm.was.free) < pm.op.x

\* C25: alloc_pages(n) with fewer than n pages in the free list returns
\* NoMem, for every n >= 1, the single page of alloc_page included.
C25_NoMem ==
    Starved(pmm_node) => pmm_node.res = "NoMem" /\ pmm_node.panic = "none"

\* the pages alloc_range(address, count) is asked for, and whether all of
\* them were FREE pages of an arena before the call
RunOf(pm) ==
    LET f0 == pm.op.x \div PAGE_SIZE IN f0..(f0 + pm.op.y - 1)
RunWasFree(pm) ==
    \A f \in RunOf(pm) : f \in DOMAIN pm.was.page /\ pm.was.page[f] = FREE
RangeTaken(pm) ==
    /\ pm.res = "ok"
    /\ Frames(pm.ret) = RunOf(pm)
    /\ Frames(pm.free) = Frames(pm.was.free) \ RunOf(pm)
    /\ \A f \in DOMAIN pm.page :
           pm.page[f] = IF f \in RunOf(pm) THEN ALLOC ELSE pm.was.page[f]
RangeRefused(pm) ==
    /\ pm.res = "NotFound"
    /\ pm.panic = "none"
    /\ Frames(pm.free) = Frames(pm.was.free)
    /\ pm.page = pm.was.page
    /\ pm.count = pm.was.count

\* C26: alloc_range(address, count) takes all of the count pages from the
\* page of address on or none: when they are all FREE pages of an arena
\* they leave the free list and become ALLOC, and nothing else changes;
\* otherwise the call returns NotFound with the free list, its count and
\* every page state as before the call.
C26_AllOrNothing ==
    (pmm_node.op.name = "alloc_range" /\ pmm_node.op.y >= 1) =>
        IF RunWasFree(pmm_node) THEN RangeTaken(pmm_node)
        ELSE RangeRefused(pmm_node)

\* the pages that must never be handed out: those with a byte in a boot
\* reservation, and those that host the descriptor array of an arena
OffLimits(pm) ==
    ReservedFrames(pm)
        \cup UNION {HostFrames(pm.arenas[k]) : k \in 1..Len(pm.arenas)}

\* C27: boot_reserve_wire, the last step of platform_early_init, returns,
\* and from then on no page of a boot reservation and no page that hosts a
\* descriptor array is in the free list.
C27_OffLimits ==
    pmm_node.op.name = "wire" =>
        /\ pmm_node.panic = "none"
        /\ Frames(pmm_node.free) \cap OffLimits(pmm_node) = {}

Bases(arenas) == {<<arenas[k].base, arenas[k].size>> : k \in 1..Len(arenas)}
Ascending(arenas) ==
    \A j, k \in 1..Len(arenas) : j < k => arenas[j].base < arenas[k].base

MaxMutexOps == 7
DataValues == {1, 2}
MFault(m, why) == IF m.panic # "none" THEN m ELSE [m EXCEPT !.panic = why]

\* a lock taken with a plain store
try_lock_fast_blind(m, t) ==
    [ok |-> TRUE,
     m |-> [m EXCEPT !.owner = t, !.thread[t].view = m.data]]

\* compare_exchange(0, current): ok, or not ok with the owner left alone; a
\* thread that finds itself as the owner stops the kernel
try_lock_fast(m, t) ==
    IF m.owner = 0
    THEN [ok |-> TRUE,
          m |-> [m EXCEPT !.owner = t, !.thread[t].view = m.data]]
    ELSE IF m.owner = t
    THEN [ok |-> FALSE, m |-> MFault(m, "nested locking")]
    ELSE [ok |-> FALSE, m |-> m]

\* Mutex::lock: the slow path is todo!()
Mutex_lock(m, t) ==
    LET tried(r) ==
            IF r.m.panic # "none" THEN r.m
            ELSE IF ~r.ok THEN MFault(r.m, "todo: __mutex_lock_slowpath")
            ELSE [r.m EXCEPT !.thread[t].pc = "guard"]
    IN tried(try_lock_fast(m, t))

\* compare_exchange(current, 0)
unlock_fast(m, t) ==
    IF m.owner = t
    THEN [ok |-> TRUE,
          m |-> [m EXCEPT !.owner = 0, !.data = m.thread[t].view]]
    ELSE IF m.owner = 0
    THEN [ok |-> FALSE, m |-> MFault(m, "mutex already unlocked")]
    ELSE [ok |-> FALSE, m |-> m]

\* the drop of a MutexGuard: unlock, whose slow path is todo!()
MutexGuard_drop(m, t) ==
    LET tried(r) ==
            IF r.m.panic # "none" THEN r.m
            ELSE IF ~r.ok THEN MFault(r.m, "todo: __mutex_unlock_slowpath")
            ELSE [r.m EXCEPT !.thread[t].pc = "out"]
    IN tried(unlock_fast(m, t))

InitMutex ==
    /\ ptr_hi = 0
    /\ fresh = 0
    /\ mem = <<>>
    /\ size = 0
    /\ remaining = 0
    /\ cached_os_alloc = NULL
    /\ free_list_bits = [i \in 0..(BUCKET_WORDS - 1) |-> {}]
    /\ os_areas = {}
    /\ next_search_start = BITMAP_PAGES
    /\ panicked = "none"
    /\ live = {}
    /\ ops = 0
    /\ last = Obs("new", NULL, 0, TRUE, TRUE)
    /\ scen = NoScen
    /\ rep = NoRep
    /\ q = NoQuery
    /\ thr = NoThr
    /\ growth = NoGrow
    /\ vcl = NoClient
    /\ valloc = NoVa
    /\ pmm_node = NoPmm
    /\ mutex = NoMutex

\* a panic powers the machine off: no thread runs after it
MutexRunning == mutex.panic = "none" /\ mutex.ops < MaxMutexOps
MutexStep(next, name, t) ==
    /\ mutex' = [next EXCEPT !.ops = mutex.ops + 1,
                             !.op = [name |-> name, by |-> t,
                                     owner |-> mutex.owner]]
    /\ UNCHANGED <<heapstate, q, growth, thr, valloc, vcl, pmm_node>>

\* a thread calls lock(), holding a guard of this mutex or not
MutexLock(t) ==
    /\ MutexRunning
    /\ MutexStep(Mutex_lock(mutex, t), "lock", t)

\* a thread writes the data through its guard (DerefMut)
MutexWrite(t, v) ==
    /\ MutexRunning
    /\ mutex.thread[t].pc = "guard"
    /\ MutexStep([mutex EXCEPT !.thread[t].view = v, !.lastw = v,
                               !.lastby = t],
                 "write", t)

\* the guard of a thread goes out of scope
MutexDrop(t) ==
    /\ MutexRunning
    /\ mutex.thread[t].pc = "guard"
    /\ MutexStep(MutexGuard_drop(mutex, t), "drop", t)

NextMutex ==
    \/ \E t \in Threads : MutexLock(t)
    \/ \E t \in Threads, v \in DataValues : MutexWrite(t, v)
    \/ \E t \in Threads : MutexDrop(t)
SpecMutex == InitMutex /\ [][NextMutex]_vars

Guards(m) == {t \in Threads : m.thread[t].pc = "guard"}

\* C29: a lock() on a mutex that another thread holds waits for the holder
\* to drop its guard: it never stops the kernel.
C29_LockWaits ==
    ~(/\ mutex.op.name = "lock"
      /\ mutex.op.owner \notin {0, mutex.op.by}
      /\ mutex.panic # "none")

\* C30: whatever the threads do, at most one guard of the mutex is live;
\* owner is the holder's thread pointer while a guard is live and 0 when
\* none is; a drop leaves the mutex unlocked; a lock() of an unlocked mutex
\* succeeds; and the holder reads the value last written through a guard.
C30_OneGuard ==
    /\ Cardinality(Guards(mutex)) <= 1
    /\ \A t \in Threads : t \in Guards(mutex) <=> mutex.owner = t
    /\ mutex.owner = 0 <=> Guards(mutex) = {}
    /\ (mutex.op.name = "drop" /\ mutex.panic = "none") => mutex.owner = 0
    /\ (mutex.op.name = "lock" /\ mutex.op.owner = 0) =>
           mutex.op.by \in Guards(mutex) /\ mutex.panic = "none"
    /\ \A t \in Guards(mutex) : mutex.thread[t].view = mutex.lastw
\* a thread holds the guard and reads what another thread wrote under its
\* own guard, now dropped
C30_Witness ==
    /\ mutex.op.name = "lock"
    /\ mutex.op.by \in Guards(mutex)
    /\ mutex.lastby \notin {0, mutex.op.by}
    /\ mutex.thread[mutex.op.by].view = mutex.lastw

(***************************************************************************)
(* Part 5: the search for a nonempty bucket, on the heaps of Spec.         *)
(***************************************************************************)
\* the buckets whose free list holds a block
Nonempty(h) == {b \in 0..(NUMBER_OF_BUCKETS - 1) : ~list_empty(h, b)}
\* the smallest member of S at or after i, -1 (NotFound) when there is none
FirstFrom(S, i) ==
    LET later(T) == IF T = {} THEN -1 ELSE SetMin(T)
    IN later({j \in S : j >= i})

\* C31: for every index i of a bucket, find_nonempty_bucket(i) is the
\* smallest j >= i whose free list is nonempty, and NotFound exactly when
\* every bucket from i on is empty.
C31_FirstNonempty ==
    LET all(h, S) == \A i \in 0..(NUMBER_OF_BUCKETS - 1) :
                        find_nonempty_bucket(h, i) = FirstFrom(S, i)
        on(h) == all(h, Nonempty(h))
    IN panicked = "none" => on(H)
\* two nonempty buckets of one word with an empty one between them, and a
\* nonempty bucket in a later word
C31_Witness ==
    /\ panicked = "none"
    /\ \E a, b, c \in Nonempty(H) :
           a + 1 < b /\ a \div 32 = b \div 32 /\ c \div 32 > b \div 32

(***************************************************************************)
(* Part 6: further properties of the VirtualAlloc and its bitmap.          *)
(***************************************************************************)
\* alloc_pages returned r and its search found the run at next_search_start
FoundAt(v, r) ==
    r.res = "ok" /\ PageOf(v, r.ret) = v.next_search_start + v.alloc_guard

\* C32: when alloc_pages(n) finds its run at next_search_start = S, the
\* free_pages of that allocation right after it puts next_search_start back
\* to S and the next alloc_pages(n) returns the same address; and
\* next_search_start is never below the first bit after the bitmap's pages.
C32_ReusesSpot ==
    (valloc.panic = "none" /\ Initialised(valloc)) =>
        /\ valloc.next_search_start >= bitmap_pages(valloc)
        /\ \A n \in VaPages \ {0} :
               LET again(v, r, f) ==
                       /\ f.res = "ok"
                       /\ f.next_search_start = v.next_search_start
                       /\ alloc_pages(f, n).ret = r.ret
                   back(v, r) ==
                       FoundAt(v, r) => again(v, r, free_pages(r, r.ret, n))
               IN back(valloc, alloc_pages(valloc, n))

\* bit positions the scans are asked about: inside the first storage unit,
\* at its end, and in the unit after it
ScanBounds == {0, 1, 2, 5, 64, 512, 600, 1024}
\* the bits of [bitoff, min(bitmax, size)) that differ from is_set
Differing(v, bitoff, bitmax, is_set) ==
    {p \in bitoff..(Min(bitmax, v.bsize) - 1) : BitAt(v, p) # is_set}

\* C33: scan(bitoff, bitmax, is_set, out) returns true exactly when every bit
\* of [bitoff, min(bitmax, size)) equals is_set; otherwise it returns false
\* with out the lowest index of the range whose bit differs; for ranges
\* inside one storage unit and ranges that span several.
C33_Scan ==
    (valloc.panic = "none" /\ Initialised(valloc)) =>
        \A bitoff, bitmax \in ScanBounds, is_set \in BOOLEAN :
            LET is(s, D) == /\ s.ok
                            /\ s.all <=> D = {}
                            /\ ~s.all => s.out = SetMin(D)
            IN is(scan(valloc, bitoff, bitmax, is_set),
                  Differing(valloc, bitoff, bitmax, is_set))

\* run lengths asked of find
RunLens == {1, 3, 6}
\* the starts of the runs of run_len unset bits inside [bitoff, bitmax)
UnsetRuns(v, bitoff, bitmax, run_len) ==
    {s \in bitoff..(bitmax - run_len) :
        \A p \in s..(s + run_len - 1) : ~BitAt(v, p)}

\* C34: find(false, bitoff, bitmax, run_len) terminates and returns Ok(s)
\* with s the lowest index >= bitoff such that s + run_len <= bitmax and the
\* bits [s, s + run_len) are unset; NoResources exactly when there is no
\* such run; InvalidArgs when bitmax <= bitoff.
C34_Find ==
    (valloc.panic = "none" /\ Initialised(valloc)) =>
        \A bitoff, bitmax \in {b \in ScanBounds : b <= valloc.bsize},
           run_len \in RunLens :
            LET is(f, R) ==
                    IF bitmax <= bitoff THEN f.err = "InvalidArgs"
                    ELSE IF R = {} THEN f.err = "NoResources"
                    ELSE f.err = "ok" /\ f.start = SetMin(R)
            IN is(find(valloc, FALSE, bitoff, bitmax, run_len),
                  UnsetRuns(valloc, bitoff, bitmax, run_len))

(***************************************************************************)
(* Part 7: further properties of the physical memory manager.              *)
(***************************************************************************)
\* every address and length of a reservation or an arena is a multiple of it
Grain == PAGE_SIZE \div 2
\* the ranges searched and the lengths asked for: PmmArena::init asks for
\* less than the size of its arena
SearchRanges == {Arena(1, 2), Arena(2, 4), Arena(2, 6)}
SearchLens == {PAGE_SIZE, 2 * PAGE_SIZE}
\* the places of [lo, lo + len) where n bytes intersect no reservation
Gaps(res, lo, len, n) ==
    {p \in {lo + k * Grain : k \in 0..((len - n) \div Grain)} :
        \A k \in 1..Len(res) : ~intersects(res[k].pa, res[k].len, p, n)}

\* the search answers as it should: Ok with the highest gap, NoMem when
\* there is none, and no subtraction below zero
SearchIs(r, G, n) ==
    /\ r.res # "underflow"
    /\ G = {} => r.res = "NoMem"
    /\ G # {} => (r.res = "ok" /\ r.pa = SetMax(G) /\ r.len = n)

\* C35 as stated: for every range and every length n,
\* boot_reserve_range_search(lo, len, n) returns Ok with a range of length n
\* inside [lo, lo + len) that intersects no recorded reservation, the
\* highest one, and an error without underflow when there is no such range.
C35_AnyLength ==
    \A a \in SearchRanges, n \in SearchLens \cup {3 * PAGE_SIZE} :
        SearchIs(boot_reserve_range_search(pmm_node.reserves, a.base,
                                           a.size, n),
                 Gaps(pmm_node.reserves, a.base, a.size, n), n)

\* C35, amended: the same for every length n below the length of the range
\* (what PmmArena::init asks for) and reservations that start at or above n.
C35_Search ==
    \A a \in SearchRanges, n \in SearchLens :
        n < a.size =>
            SearchIs(boot_reserve_range_search(pmm_node.reserves, a.base,
                                               a.size, n),
                     Gaps(pmm_node.reserves, a.base, a.size, n), n)
\* the page array of a registered arena lies right below a reservation that
\* held the top of the arena, and a search of that arena for two pages
\* moves below that reservation, meets the kernel image and finds nothing
C35_Witness ==
    \E k \in 1..Len(pmm_node.arenas) :
        LET a == pmm_node.arenas[k]
        IN /\ a.page_array.start + a.page_array.len < a.base + a.size
           /\ \E j \in 1..Len(pmm_node.reserves) :
                  pmm_node.reserves[j].pa
                      = a.page_array.start + a.page_array.len
           /\ boot_reserve_range_search(pmm_node.reserves, a.base, a.size,
                                        2 * PAGE_SIZE).res = "NoMem"

(***************************************************************************)
(* Two threads in alloc_page, alloc_pages and alloc_range at once. The     *)
(* free list is guarded by PMM_NODE.free_list, a kernel Mutex of Part 4;   *)
(* a thread takes it (lock), reads the head of the list and takes the page *)
(* (pop_head, alloc_page_helper_locked, count -= 1), and drops the guard.  *)
(* alloc_pages for two pages or more does so once for every page, and      *)
(* alloc_range once for the whole run.                                     *)
(***************************************************************************)
\* calls the two threads make altogether
MaxPmmCalls == 3
\* a thread outside the PMM: list is the caller's list of the call, handed
\* every page it was given so far
PmmIdle == [pc |-> "out", kind |-> "none", address |-> 0, count |-> 0,
            page |-> 0, list |-> <<>>, res |-> "none", handed |-> <<>>,
            calls |-> 0]
\* the PMM after boot_reserve_init for the kernel image and pmm_add_arena
\* for the 4-page arena
BootedPmm(b) ==
    LET reserved(pm) == add_arena(pm, Arena(2, 4))
    IN [reserved(boot_reserve_add_range([NoPmm EXCEPT !.build = b],
                                        KernelImage.pa, KernelImage.len))
           EXCEPT !.phase = "arenas"]
\* the requests: alloc_page, alloc_pages(2), alloc_range(pa, 1)
PmmRequests ==
    {[kind |-> "page", address |-> 0, count |-> 1],
     [kind |-> "pages", address |-> 0, count |-> 2],
     [kind |-> "range", address |-> 2 * MiB + 2 * PAGE_SIZE, count |-> 1]}

InitPmmRace ==
    /\ ptr_hi = 0
    /\ fresh = 0
    /\ mem = <<>>
    /\ size = 0
    /\ remaining = 0
    /\ cached_os_alloc = NULL
    /\ free_list_bits = [i \in 0..(BUCKET_WORDS - 1) |-> {}]
    /\ os_areas = {}
    /\ next_search_start = BITMAP_PAGES
    /\ panicked = "none"
    /\ live = {}
    /\ ops = 0
    /\ last = Obs("new", NULL, 0, TRUE, TRUE)
    /\ scen = NoScen
    /\ rep = NoRep
    /\ q = NoQuery
    /\ growth = NoGrow
    /\ vcl = NoClient
    /\ valloc = NoVa
    /\ mutex = NoMutex
    /\ thr = [t \in CPUs |-> PmmIdle]
    /\ pmm_node \in {BootedPmm(b) : b \in {"debug", "release"}}

\* a panic of any thread powers the machine off
RaceRunning == pmm_node.panic = "none" /\ mutex.panic = "none"
RaceRest == <<heapstate, q, growth, valloc, vcl>>

\* a thread calls alloc_page, alloc_pages or alloc_range
PmmEnter(t, r) ==
    /\ RaceRunning
    /\ thr[t].pc = "out"
    /\ thr[1].calls + thr[2].calls < MaxPmmCalls
    /\ thr' = [thr EXCEPT ![t] =
                  [@ EXCEPT !.pc = "lock", !.kind = r.kind,
                            !.address = r.address, !.count = r.count,
                            !.page = 0, !.list = <<>>, !.res = "none",
                            !.calls = @ + 1]]
    /\ UNCHANGED <<pmm_node, mutex, RaceRest>>

\* self.free_list.lock()
PmmLock(t) ==
    /\ RaceRunning
    /\ thr[t].pc = "lock"
    /\ mutex' = Mutex_lock(mutex, t)
    /\ thr' = [thr EXCEPT ![t].pc = "pop"]
    /\ UNCHANGED <<pmm_node, RaceRest>>

\* pop_head reads the head of the free list: 0 is the null pointer
PmmPop(t) ==
    /\ RaceRunning
    /\ thr[t].pc = "pop"
    /\ thr' = [thr EXCEPT ![t].pc = "take",
                          ![t].page = IF pmm_node.free = <<>> THEN 0
                                      ELSE Head(pmm_node.free)]
    /\ UNCHANGED <<pmm_node, mutex, RaceRest>>

\* the page leaves the free list, becomes ALLOC and goes to the caller, and
\* count goes down; for alloc_range the whole walk. go is what the
\* dereference of a null page does in alloc_page
PmmTake(t, go) ==
    /\ RaceRunning
    /\ thr[t].pc = "take"
    /\ LET c == thr[t]
           given(pm, got, res) ==
               /\ pmm_node' = pm
               /\ thr' = [thr EXCEPT ![t] =
                             [@ EXCEPT !.pc = "unlock",
                                       !.list = @ \o got,
                                       !.handed = @ \o got,
                                       !.count = c.count - Len(got),
                                       !.res = res]]
           helped(a) ==
               IF a.panic # "none" THEN given(a, <<>>, "panic")
               ELSE given([a EXCEPT !.count = @ - 1], <<c.page>>,
                          IF c.count = 1 THEN "ok" ELSE "none")
           walked(w) ==
               IF Len(w.got) # c.count
               THEN given(PFault([w.pm EXCEPT !.count = @ - Len(w.got)],
                                 "todo: free_list_locked"), w.got, "panic")
               ELSE given([w.pm EXCEPT !.count = @ - Len(w.got)], w.got,
                          "ok")
       IN IF c.kind = "range"
          THEN walked(range_walk(pmm_node, 1,
                                 (c.address \div PAGE_SIZE) * PAGE_SIZE,
                                 c.count, <<>>))
          ELSE IF c.page # 0
          THEN helped(alloc_page_helper_locked(
                          [pmm_node EXCEPT !.free = Unlink(@, c.page)],
                          c.page))
          ELSE IF c.kind = "pages" THEN given(pmm_node, <<>>, "NoMem")
          ELSE IF go = "fault"
          THEN given(PFault(pmm_node, "null page dereferenced"), <<>>,
                     "panic")
          ELSE IF go = "assert"
          THEN given(PFault(pmm_node, "assert on the null page"), <<>>,
                     "panic")
          ELSE IF pmm_node.count = 0 /\ pmm_node.build = "debug"
          THEN given(PFault(pmm_node, "overflow"), <<>>, "panic")
          ELSE given([pmm_node EXCEPT !.count = @ - 1], <<>>, "NoMem")
    /\ UNCHANGED <<mutex, RaceRest>>

\* the guard goes out of scope: at the end of a round of the loop of
\* alloc_pages, or when the function returns
PmmUnlock(t) ==
    /\ RaceRunning
    /\ thr[t].pc = "unlock"
    /\ mutex' = MutexGuard_drop(mutex, t)
    /\ thr' = [thr EXCEPT ![t].pc = IF thr[t].res = "none" THEN "lock"
                                    ELSE "out"]
    /\ UNCHANGED <<pmm_node, RaceRest>>

NextPmmRace ==
    \/ \E t \in CPUs, r \in PmmRequests : PmmEnter(t, r)
    \/ \E t \in CPUs : PmmLock(t)
    \/ \E t \in CPUs : PmmPop(t)
    \/ \E t \in CPUs, go \in NullOutcomes : PmmTake(t, go)
    \/ \E t \in CPUs : PmmUnlock(t)
SpecPmmRace == InitPmmRace /\ [][NextPmmRace]_vars

\* the pages handed to the callers so far, and how many
HandedTo(t) == Frames(thr[t].handed)
HandedCount == Len(thr[1].handed) + Len(thr[2].handed)

\* C36: however alloc_page, alloc_pages and alloc_range of two threads
\* interleave, no page is handed to two callers or twice, every page handed
\* out is ALLOC and off the free list from the lock acquisition that took
\* it, and the free count has gone down by the number of pages handed out.
C36_OneCaller ==
    /\ HandedTo(1) \cap HandedTo(2) = {}
    /\ \A t \in CPUs : Cardinality(HandedTo(t)) = Len(thr[t].handed)
    /\ \A t \in CPUs : \A f \in HandedTo(t) :
           pmm_node.page[f] = ALLOC /\ f \notin Frames(pmm_node.free)
    /\ \E b \in {"debug", "release"} :
           pmm_node.count = BootedPmm(b).count - HandedCount

\* C37: an alloc_pages(n) with n >= 2 that returns NoMem leaves the PMM as
\* it was: the free list, the free count and every page state are those
\* before the call, and the caller's list has received no page.
C37_NoMemUnchanged ==
    (/\ pmm_node.op.name = "alloc_pages"
     /\ pmm_node.op.x >= 2
     /\ pmm_node.res = "NoMem") =>
        /\ pmm_node.free = pmm_node.was.free
        /\ pmm_node.count = pmm_node.was.count
        /\ pmm_node.page = pmm_node.was.page
        /\ pmm_node.ret = <<>>

\* C38: when alloc_pages fails after bitmap_alloc has reserved its run (the
\* PMM or the mapping returns an error), the bitmap and next_search_start
\* are what they were before the call.
C38_NoLeak ==
    (valloc.panic = "none" /\ Initialised(valloc)) =>
        \A n \in VaPages \ {0} :
            LET same(v, b, r) ==
                    (b.err = "ok" /\ r.res \notin {"ok", "panic"}) =>
                        /\ r.words = v.words
                        /\ r.next_search_start = v.next_search_start
            IN same(valloc, bitmap_alloc(valloc, n), alloc_pages(valloc, n))

(***************************************************************************)
(* Part 8: the heap after heap_grow, and its byte counters.                *)
(***************************************************************************)
\* the growth loop of cmpct_alloc(sz) on heap h, with `avail` pages in the PMM
GrowFor(h, sz, avail) ==
    LET with(rounded_up) ==
            grow_loop(h, first_growby(h.size, rounded_up), rounded_up, avail)
    IN with(size_to_index_allocating(sz).size + SIZE_OF_HEADER_T)
\* heap_grow returned Ok in that loop
GrowOk(h, sz, avail) ==
    LET ok(r) == r.ok /\ ~Dead(r.h) IN ok(GrowFor(h, sz, avail))
\* the bucket found after the growth is a nonempty list whose head block
\* is at least as large as the rounded request
HeadServes(g, b, rounded_up) ==
    /\ b # -1
    /\ ~list_empty(g, b)
    /\ list_head(g, b) # NULL
    /\ hdr_size(g, list_head(g, b)) >= rounded_up
Served(h, sz, avail) ==
    LET after(r, a) ==
            (r.ok /\ ~Dead(r.h)) =>
                HeadServes(r.h, find_nonempty_bucket(r.h, a.bucket),
                           a.size + SIZE_OF_HEADER_T)
    IN after(GrowFor(h, sz, avail), size_to_index_allocating(sz))

\* C39: in cmpct_alloc, whenever heap_grow returns Ok, from new pages or
\* from the cached OS allocation, the following find_nonempty_bucket
\* succeeds on a nonempty bucket and the head block is at least as large as
\* the rounded request
C39_GrowServes ==
    (panicked = "none" /\ last.op # "new") =>
        \A sz \in GrowRequests, avail \in AvailPages :
            Grows(sz) => Served(H, sz, avail)
\* a heap with a cached OS allocation and no pages in the PMM, on which a
\* request finds no bucket and heap_grow succeeds by taking the cached one
C39_Witness ==
    /\ panicked = "none"
    /\ last.op # "new"
    /\ cached_os_alloc # NULL
    /\ \E sz \in GrowRequests : Grows(sz) /\ GrowOk(H, sz, 0)

RECURSIVE LinkedBytes(_, _)
\* the sizes of the blocks linked by the list entries E, added up
LinkedBytes(h, E) ==
    IF E = {} THEN 0
    ELSE LET e == CHOOSE x \in E : TRUE
         IN hdr_size(h, e[3]) + LinkedBytes(h, E \ {e})
RECURSIVE OsBytes(_)
\* the bytes of the OS allocations A
OsBytes(A) ==
    IF A = {} THEN 0
    ELSE LET r == CHOOSE x \in A : TRUE IN r.len + OsBytes(A \ {r})

\* C40: after any sequence of heap operations Heap.remaining is the sum of
\* the sizes of the blocks linked in the bucket free lists, and Heap.size is
\* the total of the OS allocations held, the cached one included
C40_Counters ==
    (panicked = "none" /\ last.op # "new") =>
        /\ remaining = LinkedBytes(H, ListEntries(H))
        /\ size = OsBytes(os_areas)
\* after a free, a heap of two OS allocations, one of them cached, with
\* two or more blocks in its free lists
C40_Witness ==
    /\ panicked = "none"
    /\ last.op = "free"
    /\ cached_os_alloc # NULL
    /\ Cardinality(os_areas) >= 2
    /\ Cardinality(ListEntries(H)) >= 2

====
